---- MODULE Spec2Model ----
(***************************************************************************)
(* Reeves: type-directed search over crate function signatures.            *)
(* Model of the index store (src/src/lib.rs: open_db, save_analysis,       *)
(* has_crate, add_crate, purge_crate), of the fuzzy index load and of      *)
(* search.  The sled store is one record of trees; every sled transaction  *)
(* is one atomic step.                                                     *)
(***************************************************************************)
EXTENDS Integers, Sequences, FiniteSets, TLC

VARIABLES db, idx, panicked, hist, sr, pc, job, orch, fx, load

vars == <<db, idx, panicked, hist, sr, pc, job, orch, fx, load>>

(***************************************************************************)
(* Bounds of the model.                                                    *)
(***************************************************************************)
\* fn ids are handed out while next_fn_id + n <= MaxFnId
MaxFnId == 3
\* longest details list given to one save_analysis call
MaxDetails == 2
\* runs of the orchestrator
MaxRuns == 2
\* longest type string given to the tokenizer (beside the example)
MaxTypeLen == 4
\* longest crate name given to crate_to_tar_path
MaxNameLen == 4
\* longest details list of a save_analysis call that runs beside another
MaxConcDetails == 1
\* save_analysis calls made by the concurrent workers
MaxCalls == 2
\* fn ids are handed out in runs with searches while next_fn_id + n <= MaxSearchFnId
MaxSearchFnId == 2
\* longest fuzzy hit list of one query column
MaxHits == 3
\* most keys of a keyspace that load_text_search streams
MaxKeys == 1001

(***************************************************************************)
(* Program constants.                                                      *)
(***************************************************************************)
FUZZY_SEARCH_LIMIT == 100
MAX_RESULTS == 500
FN_ID_COUNTER == "next_fn_id"
PARAM_TREE == "param"
RET_TREE == "ret"
FN_TREE == "fn"
CRATE_TREE == "crate"
NIL_PARAMS == "<NOARGS>"

CrateNames == {"a", "b"}
Versions == {"1.0", "1.1"}
Workers == {"w1", "w2"}

Min(x, y) == IF x <= y THEN x ELSE y

\* f with key k removed / set to v (a tree's remove and insert)
Remove(f, k) == [x \in DOMAIN f \ {k} |-> f[x]]
Insert(f, k, v) == [x \in DOMAIN f \cup {k} |-> IF x = k THEN v ELSE f[x]]
\* tree.get(k).unwrap_or_else(HashSet::new)
GetOrEmpty(f, k) == IF k \in DOMAIN f THEN f[k] ELSE {}
CountOf(f, k) == IF k \in DOMAIN f THEN f[k] ELSE 0

Range(s) == {s[i] : i \in DOMAIN s}

(***************************************************************************)
(* FnDetail { krate, params, ret, s }.  s is "fn {path}({params}) ->       *)
(* {ret}", kept as the triple it is formatted from.                        *)
(***************************************************************************)
Shapes ==
    { [path |-> "f", params |-> << >>, ret |-> "U"],
      [path |-> "g", params |-> <<"T">>, ret |-> "U"],
      [path |-> "h", params |-> <<"U", "T", "T">>, ret |-> "T"] }

FnDetail(krate_name, sh) ==
    [krate |-> krate_name, params |-> sh.params, ret |-> sh.ret,
     s |-> <<sh.path, sh.params, sh.ret>>]

SeqsUpTo(S, n) == UNION {[1..k -> S] : k \in 0..n}

\* the details lists one extraction of crate `name` can produce
DetailLists(name) ==
    {[i \in DOMAIN shs |-> FnDetail(name, shs[i])] : shs \in SeqsUpTo(Shapes, MaxDetails)}

\* the signatures of the crates that are ingested concurrently: they share the
\* param posting T and differ in the ret posting
ConcShapes == {sh \in Shapes : sh.path \in {"g", "h"}}

\* the details lists of the jobs that run concurrently
ConcDetailLists(name) ==
    {[i \in DOMAIN shs |-> FnDetail(name, shs[i])] : shs \in SeqsUpTo(ConcShapes, MaxConcDetails)}

(***************************************************************************)
(* The store.                                                              *)
(***************************************************************************)
\* error: the keyspace of the analysis errors, name -> message
EmptyDb ==
    [meta |-> << >>, param |-> << >>, ret |-> << >>, fn |-> << >>, crate |-> << >>,
     error |-> << >>]

open_db_reset(d) == [d EXCEPT !.meta = (FN_ID_COUNTER :> 0)]

open_db(d) ==
    IF FN_ID_COUNTER \in DOMAIN d.meta
    THEN d
    ELSE [d EXCEPT !.meta = (FN_ID_COUNTER :> 0)]

next_fn_id(d) == d.meta[FN_ID_COUNTER]

has_crate_any_version(d, krate_name, krate_version) == krate_name \in DOMAIN d.crate

has_crate(d, krate_name, krate_version) ==
    IF krate_name \in DOMAIN d.crate
    THEN d.crate[krate_name].version = krate_version
    ELSE FALSE

\* the counter is not written back
reserve_fn_id_range_stale(d, num) == [fn_id |-> next_fn_id(d), db |-> d]

\* returns the old counter value and the store with the counter advanced
reserve_fn_id_range(d, num) ==
    [fn_id |-> next_fn_id(d),
     db |-> [d EXCEPT !.meta = Insert(d.meta, FN_ID_COUNTER, next_fn_id(d) + num)]]

\* params, or the sentinel when there are none
ParamsOrNil(fndetail) ==
    IF fndetail.params = << >> THEN <<NIL_PARAMS>> ELSE fndetail.params

(***************************************************************************)
(* add_crate: the precomputation outside the transaction (param_sets,      *)
(* ret_sets, fn_ids), then one transaction over param, ret, fn and crate.  *)
(***************************************************************************)
RECURSIVE InsertParams(_, _, _, _)
\* for param in params.iter(): param_sets.entry(param).or_insert_with(..).insert(fn_id)
InsertParams(param_sets, params, j, fn_id) ==
    IF j > Len(params)
    THEN param_sets
    ELSE InsertParams(
             Insert(param_sets, params[j], GetOrEmpty(param_sets, params[j]) \cup {fn_id}),
             params, j + 1, fn_id)

RECURSIVE PrecomputeAssertParams(_, _, _, _)
\* the assertion is also made on the insert into the param set
PrecomputeAssertParams(fndetails, start_fn_id, i, acc) ==
    IF i > Len(fndetails)
    THEN acc
    ELSE LET fndetail == fndetails[i]
             fn_id == start_fn_id + (i - 1)
             params == ParamsOrNil(fndetail)
             isnew == /\ fn_id \notin GetOrEmpty(acc.ret_sets, fndetail.ret)
                      /\ \A j \in DOMAIN params : \A k \in DOMAIN params :
                           params[j] = params[k] => j = k
         IN  PrecomputeAssertParams(fndetails, start_fn_id, i + 1,
                 [param_sets |-> InsertParams(acc.param_sets, params, 1, fn_id),
                  ret_sets |-> Insert(acc.ret_sets, fndetail.ret,
                                      GetOrEmpty(acc.ret_sets, fndetail.ret) \cup {fn_id}),
                  fn_ids |-> Append(acc.fn_ids, fn_id),
                  ok |-> acc.ok /\ isnew])

RECURSIVE Precompute(_, _, _, _)
\* acc = [param_sets, ret_sets, fn_ids, ok]; ok is the assert!(isnew) of the ret set
Precompute(fndetails, start_fn_id, i, acc) ==
    IF i > Len(fndetails)
    THEN acc
    ELSE LET fndetail == fndetails[i]
             fn_id == start_fn_id + (i - 1)
             isnew == fn_id \notin GetOrEmpty(acc.ret_sets, fndetail.ret)
         IN  Precompute(fndetails, start_fn_id, i + 1,
                 [param_sets |-> InsertParams(acc.param_sets, ParamsOrNil(fndetail), 1, fn_id),
                  ret_sets |-> Insert(acc.ret_sets, fndetail.ret,
                                      GetOrEmpty(acc.ret_sets, fndetail.ret) \cup {fn_id}),
                  fn_ids |-> Append(acc.fn_ids, fn_id),
                  ok |-> acc.ok /\ isnew])

EmptyPrecompute ==
    [param_sets |-> << >>, ret_sets |-> << >>, fn_ids |-> << >>, ok |-> TRUE]

\* the posting is written without reading the stored set
OverwritePostings(tree, sets) ==
    [t \in DOMAIN tree \cup DOMAIN sets |->
        IF t \in DOMAIN sets THEN sets[t] ELSE tree[t]]

\* param_set = tree.get(param) or empty; param_set.extend(fn_ids); tree.insert(param, param_set)
ExtendPostings(tree, sets) ==
    [t \in DOMAIN tree \cup DOMAIN sets |->
        IF t \in DOMAIN sets THEN GetOrEmpty(tree, t) \cup sets[t] ELSE tree[t]]

\* the details are stored under the ids of the range in reverse order
InsertFnsReversed(fn_tree, fndetails, start_fn_id) ==
    LET new_ids == {start_fn_id + (i - 1) : i \in DOMAIN fndetails}
    IN  [f \in DOMAIN fn_tree \cup new_ids |->
            IF f \in new_ids
            THEN fndetails[Len(fndetails) - (f - start_fn_id)]
            ELSE fn_tree[f]]

\* fn_tree.insert(start_fn_id + i, fndetail) for every detail
InsertFns(fn_tree, fndetails, start_fn_id) ==
    LET new_ids == {start_fn_id + (i - 1) : i \in DOMAIN fndetails}
    IN  [f \in DOMAIN fn_tree \cup new_ids |->
            IF f \in new_ids THEN fndetails[f - start_fn_id + 1] ELSE fn_tree[f]]

\* add_crate with lost posting updates
add_crate_overwrite(d, name, version, fndetails, start_fn_id) ==
    LET pre == Precompute(fndetails, start_fn_id, 1, EmptyPrecompute)
    IN  [ok |-> pre.ok,
         db |-> IF ~pre.ok THEN d
                ELSE [d EXCEPT
                        !.param = OverwritePostings(d.param, pre.param_sets),
                        !.ret = OverwritePostings(d.ret, pre.ret_sets),
                        !.fn = InsertFns(d.fn, fndetails, start_fn_id),
                        !.crate = Insert(d.crate, name,
                                         [version |-> version, fn_ids |-> pre.fn_ids])]]

\* [ok, db]: ok is FALSE when the assertion fails (the store is then unchanged)
add_crate(d, name, version, fndetails, start_fn_id) ==
    LET pre == Precompute(fndetails, start_fn_id, 1, EmptyPrecompute)
    IN  [ok |-> pre.ok,
         db |-> IF ~pre.ok THEN d
                ELSE [d EXCEPT
                        !.param = ExtendPostings(d.param, pre.param_sets),
                        !.ret = ExtendPostings(d.ret, pre.ret_sets),
                        !.fn = InsertFns(d.fn, fndetails, start_fn_id),
                        !.crate = Insert(d.crate, name,
                                         [version |-> version, fn_ids |-> pre.fn_ids])]]

(***************************************************************************)
(* purge_crate: one transaction over the default tree, param, ret, fn and  *)
(* crate.                                                                  *)
(***************************************************************************)
RECURSIVE RemoveParams(_, _, _, _)
\* for param in params: read the posting (or empty), remove fn_id, insert it back
RemoveParams(param_tree, params, j, fn_id) ==
    IF j > Len(params)
    THEN param_tree
    ELSE RemoveParams(
             Insert(param_tree, params[j], GetOrEmpty(param_tree, params[j]) \ {fn_id}),
             params, j + 1, fn_id)

RECURSIVE PurgeFns(_, _, _, _)
\* acc = [param, ret, ok]; ok is the assert!(didremove) on the ret posting
PurgeFns(fn_ids, fn_tree, i, acc) ==
    IF i > Len(fn_ids)
    THEN acc
    ELSE LET fn_id == fn_ids[i]
             fndetail == fn_tree[fn_id]
             didremove == fn_id \in GetOrEmpty(acc.ret, fndetail.ret)
         IN  PurgeFns(fn_ids, fn_tree, i + 1,
                 [param |-> RemoveParams(acc.param, ParamsOrNil(fndetail), 1, fn_id),
                  ret |-> Insert(acc.ret, fndetail.ret,
                                 GetOrEmpty(acc.ret, fndetail.ret) \ {fn_id}),
                  ok |-> acc.ok /\ didremove])

\* purge_crate that removes the crate record and leaves its fns and postings
purge_crate_record_only(d, name) ==
    [ok |-> TRUE, db |-> [d EXCEPT !.crate = Remove(d.crate, name)]]

\* purge_crate that leaves the postings of the removed fns in place
purge_crate_keep_postings(d, name) ==
    IF name \notin DOMAIN d.crate
    THEN [ok |-> TRUE, db |-> d]
    ELSE [ok |-> TRUE,
          db |-> [d EXCEPT !.crate = Remove(d.crate, name),
                           !.fn = [f \in DOMAIN d.fn \ Range(d.crate[name].fn_ids) |-> d.fn[f]]]]

\* purge_crate that, for a name without a record, removes the record of a
\* crate that is stored
purge_crate_nearest(d, name) ==
    [ok |-> TRUE,
     db |-> [d EXCEPT !.crate =
               IF name \in DOMAIN d.crate THEN Remove(d.crate, name)
               ELSE IF DOMAIN d.crate = {} THEN d.crate
               ELSE Remove(d.crate, CHOOSE m \in DOMAIN d.crate : TRUE)]]

\* purge_crate that removes the key of a posting it has emptied
purge_crate_drop_empty_keys(d, name) ==
    IF name \notin DOMAIN d.crate
    THEN [ok |-> TRUE, db |-> d]
    ELSE LET fn_ids == d.crate[name].fn_ids
             acc == PurgeFns(fn_ids, d.fn, 1, [param |-> d.param, ret |-> d.ret, ok |-> TRUE])
         IN  [ok |-> acc.ok,
              db |-> IF ~acc.ok THEN d
                     ELSE [d EXCEPT
                             !.crate = Remove(d.crate, name),
                             !.fn = [f \in DOMAIN d.fn \ Range(fn_ids) |-> d.fn[f]],
                             !.param = [t \in {x \in DOMAIN acc.param : acc.param[x] # {}}
                                          |-> acc.param[t]],
                             !.ret = [t \in {x \in DOMAIN acc.ret : acc.ret[x] # {}}
                                        |-> acc.ret[t]]]]

\* [ok, db]: ok is FALSE when an unwrap or the assertion fails (nothing is committed)
purge_crate(d, name) ==
    IF name \notin DOMAIN d.crate
    THEN [ok |-> TRUE, db |-> d]
    ELSE LET fn_ids == d.crate[name].fn_ids
             found == \A i \in DOMAIN fn_ids : fn_ids[i] \in DOMAIN d.fn
             acc == IF found
                    THEN PurgeFns(fn_ids, d.fn, 1, [param |-> d.param, ret |-> d.ret, ok |-> TRUE])
                    ELSE [param |-> d.param, ret |-> d.ret, ok |-> FALSE]
         IN  [ok |-> acc.ok,
              db |-> IF ~acc.ok THEN d
                     ELSE [d EXCEPT
                             !.crate = Remove(d.crate, name),
                             !.fn = [f \in DOMAIN d.fn \ Range(fn_ids) |-> d.fn[f]],
                             !.param = acc.param,
                             !.ret = acc.ret]]

(***************************************************************************)
(* History of the run (not program state): how often each fn id was handed *)
(* out and to which crate, the ids ever stored in the fn tree, and the     *)
(* last completed call per crate.                                          *)
(***************************************************************************)
IdRange(start, n) == {start + k : k \in 0..(n - 1)}

HistReserve(h, name, start, n) ==
    [h EXCEPT
       !.assigned = [f \in DOMAIN h.assigned \cup IdRange(start, n) |->
                        IF f \in IdRange(start, n)
                        THEN CountOf(h.assigned, f) + 1
                        ELSE h.assigned[f]],
       !.owner = [f \in DOMAIN h.owner \cup IdRange(start, n) |->
                        IF f \in IdRange(start, n) THEN name ELSE h.owner[f]],
       !.maxctr = IF h.maxctr > start + n THEN h.maxctr ELSE start + n]

NoCall == [op |-> "none", version |-> "", fndetails |-> << >>, start |-> 0]

HistPurge(h, name) == [h EXCEPT !.last[name] = [NoCall EXCEPT !.op = "purged"]]

HistAdd(h, name, version, fndetails, start) ==
    [h EXCEPT
       !.stored = h.stored \cup IdRange(start, Len(fndetails)),
       !.last[name] = [op |-> "saved", version |-> version, fndetails |-> fndetails,
                       start |-> start]]

\* the fuzzy service before load_text_search: neither index exists
NoIndexes ==
    [param_types |-> [exists |-> FALSE, docs |-> {}],
     ret_types |-> [exists |-> FALSE, docs |-> {}]]

\* no search has returned yet; fetching: a search has read the postings and
\* not yet the fn records, ids and ranges are then what it collected;
\* dangling: the collected ids it found no fn record for
NoSearch ==
    [done |-> FALSE, params_search |-> [some |-> FALSE, len |-> 0], ret_search |-> FALSE,
     candidate_types |-> << >>, ok |-> TRUE, ids |-> << >>, ret |-> << >>,
     ranges |-> << >>, fetching |-> FALSE, dangling |-> {}]

\* no run of the orchestrator yet.  runs: the runs started so far; pending:
\* the pairs handed to the pool whose worker has not run; known: the pairs
\* handed to the pool although has_crate held when they were enumerated;
\* results: the results that wait for cli_finish_and_save_analysis; lost: the
\* pairs whose worker panicked; count: the CratesProgressCounter; last: the
\* crate and the kind of result handled last; scratch: the directories below
\* /tmp/crate
NoRun ==
    [running |-> FALSE, runs |-> 0, known |-> {}, pending |-> {},
     results |-> << >>, lost |-> {}, aborted |-> FALSE, logged |-> FALSE,
     count |-> [errored |-> 0, processed |-> 0, total |-> 0],
     last |-> [res |-> "none", name |-> "", version |-> ""],
     scratch |-> [p \in CrateNames \X Versions |-> "absent"]]

\* no call of a function of the command line yet
NoEval == [fn |-> "none", input |-> << >>, output |-> << >>, done |-> FALSE]

\* load_text_search has not been called.  pc: the call the loader makes next
\* or waits in; ix: the index it works on; i: the keys of the stream it has
\* consumed; batch, total: as in the code; final: the batch is the one after
\* the loop; svc: the indexes of the service; queue: the updates the service
\* has accepted and not applied; trace, sent: the requests made so far and
\* the documents of each add_documents request (not program state)
NoLoad ==
    [pc |-> "idle", ix |-> "", i |-> 0, total |-> 0, batch |-> << >>, final |-> FALSE,
     svc |-> [param_types |-> [exists |-> FALSE, settings |-> FALSE, docs |-> {}],
              ret_types |-> [exists |-> FALSE, settings |-> FALSE, docs |-> {}]],
     queue |-> << >>, trace |-> << >>, sent |-> << >>]

\* a worker outside save_analysis
NoJob ==
    [name |-> "", version |-> "", fndetails |-> << >>, start |-> 0, raced |-> FALSE,
     old |-> [crate |-> << >>, fns |-> << >>, postings |-> {}]]

(***************************************************************************)
(* Sequential use of the store: every call runs to completion.             *)
(***************************************************************************)
Init ==
    /\ db = open_db(EmptyDb)
    /\ idx = NoIndexes
    /\ panicked = FALSE
    /\ hist = [assigned |-> << >>, owner |-> << >>, stored |-> {}, maxctr |-> 0, calls |-> 0,
               last |-> [n \in CrateNames |-> NoCall]]
    /\ sr = NoSearch
    /\ pc = [w \in Workers |-> "idle"]
    /\ job = [w \in Workers |-> NoJob]
    /\ orch = NoRun
    /\ fx = NoEval
    /\ load = NoLoad

\* a process opens the store again (a panicked process is restarted)
OpenDb ==
    /\ db' = open_db(db)
    /\ panicked' = FALSE
    /\ UNCHANGED <<idx, hist, sr, pc, job, orch, fx, load>>

\* save_analysis: purge_crate, then add_crate (reserve_fn_id_range, the transaction)
SaveAnalysis(krate_name, krate_version, fndetails) ==
    /\ ~panicked
    /\ next_fn_id(db) + Len(fndetails) <= MaxFnId
    /\ \E p \in {purge_crate(db, krate_name)} :
       \E r \in {reserve_fn_id_range(p.db, Len(fndetails))} :
       \E a \in {add_crate(r.db, krate_name, krate_version, fndetails, r.fn_id)} :
           IF ~p.ok
           THEN /\ db' = db
                /\ panicked' = TRUE
                /\ hist' = hist
           ELSE IF ~a.ok
           THEN /\ db' = r.db
                /\ panicked' = TRUE
                /\ hist' = HistReserve(HistPurge(hist, krate_name), krate_name,
                                       r.fn_id, Len(fndetails))
           ELSE /\ db' = a.db
                /\ panicked' = FALSE
                /\ hist' = HistAdd(HistReserve(HistPurge(hist, krate_name), krate_name,
                                               r.fn_id, Len(fndetails)),
                                   krate_name, krate_version, fndetails, r.fn_id)
    /\ UNCHANGED <<idx, sr, pc, job, orch, fx, load>>

\* purge_crate called on its own
PurgeCrate(krate_name) ==
    /\ ~panicked
    /\ LET p == purge_crate(db, krate_name)
       IN  IF ~p.ok
           THEN /\ db' = db
                /\ panicked' = TRUE
                /\ hist' = hist
           ELSE /\ db' = p.db
                /\ panicked' = FALSE
                /\ hist' = HistPurge(hist, krate_name)
    /\ UNCHANGED <<idx, sr, pc, job, orch, fx, load>>

Next ==
    \/ OpenDb
    \/ \E n \in CrateNames, v \in Versions :
         \E ds \in DetailLists(n) : SaveAnalysis(n, v, ds)
    \/ \E n \in CrateNames : PurgeCrate(n)

Spec == Init /\ [][Next]_vars

(***************************************************************************)
(* Claims about the store under sequential calls.                          *)
(***************************************************************************)
\* every fn id that occurs anywhere in the store
StoreIds(d) ==
    DOMAIN d.fn
      \cup UNION {d.param[t] : t \in DOMAIN d.param}
      \cup UNION {d.ret[t] : t \in DOMAIN d.ret}
      \cup UNION {Range(d.crate[n].fn_ids) : n \in DOMAIN d.crate}

TypeStrings == {"T", "U", NIL_PARAMS}

\* C1: after any sequence of save_analysis and purge_crate calls, f is in the
\* param posting of t iff fn holds a record for f and t occurs in its params
\* (or t is <NOARGS> and the params are empty); f is in the ret posting of t
\* iff fn holds a record for f whose ret is t.
C1_PostingsMatchFns ==
    \A t \in TypeStrings \cup DOMAIN db.param \cup DOMAIN db.ret :
      \A f \in StoreIds(db) \cup DOMAIN hist.assigned :
        /\ (f \in GetOrEmpty(db.param, t))
             <=> /\ f \in DOMAIN db.fn
                 /\ \/ \E j \in DOMAIN db.fn[f].params : db.fn[f].params[j] = t
                    \/ t = NIL_PARAMS /\ db.fn[f].params = << >>
        /\ (f \in GetOrEmpty(db.ret, t))
             <=> (f \in DOMAIN db.fn /\ db.fn[f].ret = t)

\* a crate was purged, another is stored, and a posting emptied by the purge
\* remains beside a non-empty one
C1_Witness ==
    /\ \E n \in CrateNames : hist.last[n].op = "purged"
    /\ \E t \in DOMAIN db.param : db.param[t] = {}
    /\ \E t \in DOMAIN db.param : Cardinality(db.param[t]) >= 2
    /\ \E t \in DOMAIN db.ret : db.ret[t] # {}

\* C2: every fn id with a record in fn is listed in the fn_ids of exactly one
\* crate record, and every id listed in a crate record has a record in fn.
C2_FnOwnedByOneCrate ==
    /\ \A f \in DOMAIN db.fn :
         Cardinality({n \in DOMAIN db.crate : f \in Range(db.crate[n].fn_ids)}) = 1
    /\ \A n \in DOMAIN db.crate :
         \A i \in DOMAIN db.crate[n].fn_ids : db.crate[n].fn_ids[i] \in DOMAIN db.fn

\* two crates are stored with fns, one of them after a replace
C2_Witness ==
    /\ \A n \in CrateNames : n \in DOMAIN db.crate /\ db.crate[n].fn_ids # << >>
    /\ \E f \in DOMAIN hist.owner : f \notin DOMAIN db.fn

\* C3: no fn id is assigned twice, also not after the crate that owned it was
\* purged or replaced.
C3_NoIdAssignedTwice ==
    \A f \in DOMAIN hist.assigned : hist.assigned[f] = 1

\* a crate was replaced: ids once assigned to it are gone and new ones stored
C3_Witness ==
    \E n \in CrateNames :
      /\ hist.last[n].op = "saved"
      /\ hist.last[n].fndetails # << >>
      /\ \E f \in DOMAIN hist.owner : hist.owner[f] = n /\ f < hist.last[n].start

\* C4: next_fn_id is strictly greater than every fn id ever stored in fn, and
\* it never decreases (it is the largest value it ever had).
C4_CounterAboveStoredIds ==
    /\ \A f \in hist.stored : f < next_fn_id(db)
    /\ next_fn_id(db) >= hist.maxctr

\* ids were stored and purged again, and the counter stays above them
C4_Witness ==
    /\ hist.stored # {}
    /\ DOMAIN db.fn = {}
    /\ next_fn_id(db) = MaxFnId

\* every posting of the store that holds f
PostingsOf(d, f) ==
    {<<PARAM_TREE, t>> : t \in {x \in DOMAIN d.param : f \in d.param[x]}}
      \cup {<<RET_TREE, t>> : t \in {x \in DOMAIN d.ret : f \in d.ret[x]}}

\* C5: after save_analysis(n, v1, D1); save_analysis(n, v2, D2) no posting
\* holds an id assigned to D1, fn holds no record for it, and crate[n].fn_ids
\* lists exactly the ids assigned to D2; after purge_crate(n) the same holds
\* with the crate record absent.
C5_ReplaceLeavesNoOldIds ==
    \A n \in CrateNames :
      LET last == hist.last[n]
          current == IF last.op = "saved"
                     THEN IdRange(last.start, Len(last.fndetails))
                     ELSE {}
      IN  /\ last.op = "purged" => n \notin DOMAIN db.crate
          /\ last.op = "saved" =>
               /\ n \in DOMAIN db.crate
               /\ db.crate[n].fn_ids =
                    [i \in 1..Len(last.fndetails) |-> last.start + (i - 1)]
          /\ last.op # "none" =>
               \A f \in DOMAIN hist.owner :
                 (hist.owner[f] = n /\ f \notin current) =>
                    (f \notin DOMAIN db.fn /\ PostingsOf(db, f) = {})

\* crate n was saved with fns and saved again with fns
C5_Witness ==
    \E n \in CrateNames :
      /\ hist.last[n].op = "saved"
      /\ hist.last[n].fndetails # << >>
      /\ hist.last[n].start > 0
      /\ \E f \in hist.stored : hist.owner[f] = n /\ f < hist.last[n].start
      /\ \E m \in CrateNames : hist.last[m].op = "purged"

\* C6: has_crate(n, v) is true iff the last call on n was save_analysis with
\* version v: false for every other version, for a name never ingested and
\* for a purged name.
C6_HasCrateIffSavedVersion ==
    \A n \in CrateNames \cup {"c"} : \A v \in Versions \cup {""} :
      has_crate(db, n, v)
        <=> (n \in CrateNames /\ hist.last[n].op = "saved" /\ hist.last[n].version = v)

\* one crate saved at 1.1 (has_crate true for 1.1 only), the other purged
C6_Witness ==
    /\ hist.last["a"].op = "saved" /\ hist.last["a"].version = "1.1"
    /\ has_crate(db, "a", "1.1") /\ ~has_crate(db, "a", "1.0")
    /\ hist.last["b"].op = "purged" /\ ~has_crate(db, "b", "1.0")

\* the type strings of the params column of a fn record
ParamKeys(fndetail) ==
    IF fndetail.params = << >> THEN {NIL_PARAMS} ELSE Range(fndetail.params)

\* C27: after a crate is replaced or purged, param and ret hold no key for a
\* type string that occurred only in the removed functions: every key that is
\* present is a type of a function that is stored.
C27_NoKeyForRemovedTypes ==
    (\E n \in CrateNames : hist.last[n].op \in {"saved", "purged"}) =>
      /\ \A t \in DOMAIN db.param : \E f \in DOMAIN db.fn : t \in ParamKeys(db.fn[f])
      /\ \A t \in DOMAIN db.ret : \E f \in DOMAIN db.fn : db.fn[f].ret = t

\* C28: purge_crate(name) for a name with no crate record changes nothing
\* (counter, fn, param, ret, crate), and the first save_analysis of a crate
\* leaves the records, the fns and the posting entries of the other crates
\* as they are.
C28_PurgeAbsentIsNoOp ==
    [][/\ \A n \in CrateNames \cup {"c"} :
            n \notin DOMAIN db.crate => purge_crate(db, n) = [ok |-> TRUE, db |-> db]
       /\ \A n \in CrateNames :
            /\ (hist.last[n].op = "none" /\ hist'.last[n].op = "purged") => db' = db
            /\ (hist.last[n].op = "none" /\ hist'.last[n].op = "saved") =>
                  /\ \A m \in DOMAIN db.crate : db'.crate[m] = db.crate[m]
                  /\ \A f \in DOMAIN db.fn : f \in DOMAIN db'.fn /\ db'.fn[f] = db.fn[f]
                  /\ \A t \in DOMAIN db.param :
                       t \in DOMAIN db'.param /\ db.param[t] \subseteq db'.param[t]
                  /\ \A t \in DOMAIN db.ret :
                       t \in DOMAIN db'.ret /\ db.ret[t] \subseteq db'.ret[t]]_vars

\* a name that never had fn ids was purged while the other crate is stored
\* with its fns
C28_Witness ==
    \E n \in CrateNames :
      /\ hist.last[n].op = "purged"
      /\ \A f \in DOMAIN hist.owner : hist.owner[f] # n
      /\ \E m \in DOMAIN db.crate : db.crate[m].fn_ids # << >>
      /\ next_fn_id(db) = Cardinality(DOMAIN db.fn)

\* C32: add_crate with n details reads the counter value first, advances
\* next_fn_id by exactly n in a transaction that writes nothing else, and
\* assigns first, first+1, ..., first+n-1 to the details in their given
\* order: the stored crate record lists exactly these ids in that order and
\* fn[first+i] is the i-th detail.
C32_IdsFollowDetailOrder ==
    [][/\ \A k \in 0..MaxDetails :
            \E r \in {reserve_fn_id_range(db, k)} :
              /\ r.fn_id = next_fn_id(db)
              /\ next_fn_id(r.db) = r.fn_id + k
              /\ [r.db EXCEPT !.meta = db.meta] = db
       /\ \A n \in CrateNames :
            (hist'.last[n] # hist.last[n] /\ hist'.last[n].op = "saved") =>
               \E c \in {hist'.last[n]} : \E first \in {next_fn_id(db)} :
                 /\ c.start = first
                 /\ next_fn_id(db') = first + Len(c.fndetails)
                 /\ n \in DOMAIN db'.crate
                 /\ db'.crate[n].fn_ids = [i \in 1..Len(c.fndetails) |-> first + (i - 1)]
                 /\ \A i \in 1..Len(c.fndetails) :
                      /\ first + (i - 1) \in DOMAIN db'.fn
                      /\ db'.fn[first + (i - 1)] = c.fndetails[i]]_vars

\* a crate is stored with two different details under the ids first and
\* first+1, first being above 0
C32_Witness ==
    \E n \in CrateNames :
      /\ hist.last[n].op = "saved"
      /\ Len(hist.last[n].fndetails) = 2
      /\ hist.last[n].fndetails[1] # hist.last[n].fndetails[2]
      /\ hist.last[n].start > 0
      /\ n \in DOMAIN db.crate
      /\ db.crate[n].fn_ids = <<hist.last[n].start, hist.last[n].start + 1>>
      /\ db.fn[hist.last[n].start] = hist.last[n].fndetails[1]
      /\ db.fn[hist.last[n].start + 1] = hist.last[n].fndetails[2]
      /\ next_fn_id(db) = hist.last[n].start + 2

\* C35: save_analysis(a, ..) and purge_crate(a) leave every other crate b
\* untouched: b's crate record, the fn records of b's ids and the membership
\* of b's ids in every param and ret posting (also in the postings of types
\* that b shares with a) are the same before and after.
C35_OtherCratesUntouched ==
    [][\A a \in CrateNames :
         hist'.last[a] # hist.last[a] =>
            \A b \in CrateNames \ {a} :
              /\ b \in DOMAIN db'.crate <=> b \in DOMAIN db.crate
              /\ b \in DOMAIN db.crate => db'.crate[b] = db.crate[b]
              /\ \A f \in DOMAIN hist.owner :
                   hist.owner[f] = b =>
                      /\ f \in DOMAIN db'.fn <=> f \in DOMAIN db.fn
                      /\ f \in DOMAIN db.fn => db'.fn[f] = db.fn[f]
                      /\ PostingsOf(db', f) = PostingsOf(db, f)]_vars

\* crate a was stored, then crate b, then a was saved again (its purge and its
\* add ran with b stored), and a param posting and a ret posting hold ids of
\* both crates
C35_Witness ==
    \E a \in CrateNames : \E b \in CrateNames \ {a} :
      /\ hist.last[a].op = "saved" /\ hist.last[b].op = "saved"
      /\ hist.last[a].start > hist.last[b].start
      /\ \E f \in hist.stored : hist.owner[f] = a /\ f < hist.last[b].start
      /\ \E t \in DOMAIN db.param :
           \E f \in db.param[t] : \E g \in db.param[t] :
             hist.owner[f] = a /\ hist.owner[g] = b
      /\ \E t \in DOMAIN db.ret :
           \E f \in db.ret[t] : \E g \in db.ret[t] :
             hist.owner[f] = a /\ hist.owner[g] = b

\* C36: in every state reached by a sequence of save_analysis calls (details
\* whose params repeat a type string and details that share a ret type
\* included) the internal assertions do not fail: add_crate's assertion that
\* each fn id is new in its ret set, purge_crate's assertion that each owned
\* fn id is in its ret posting, and purge_crate's unwrap of the fn record of
\* each owned fn id.
C36_AssertionsNeverFail ==
    /\ ~panicked
    /\ \A n \in CrateNames :
         /\ purge_crate(db, n).ok
         /\ n \in DOMAIN db.crate =>
              \A i \in DOMAIN db.crate[n].fn_ids :
                \E f \in {db.crate[n].fn_ids[i]} :
                  /\ f \in DOMAIN db.fn
                  /\ f \in GetOrEmpty(db.ret, db.fn[f].ret)
    /\ \A n \in CrateNames : \A ds \in DetailLists(n) :
         Precompute(ds, next_fn_id(db), 1, EmptyPrecompute).ok

\* a crate was replaced, and the two stored crates hold a function whose
\* params repeat a type and two functions with the same ret type
C36_Witness ==
    /\ ~panicked
    /\ \E n \in CrateNames :
         /\ hist.last[n].op = "saved"
         /\ \E f \in hist.stored : hist.owner[f] = n /\ f < hist.last[n].start
    /\ \E f \in DOMAIN db.fn :
         \E j \in DOMAIN db.fn[f].params : \E k \in DOMAIN db.fn[f].params :
           j # k /\ db.fn[f].params[j] = db.fn[f].params[k]
    /\ \E t \in DOMAIN db.ret : Cardinality(db.ret[t]) >= 2

(***************************************************************************)
(* Concurrent use of the store: workers run save_analysis for different    *)
(* crates; each sled transaction (purge_crate, reserve_fn_id_range, the    *)
(* add_crate transaction) is one step, and readers may look at the store   *)
(* between any two steps.                                                  *)
(***************************************************************************)
\* what a reader can see of crate n: its record, the fn records and the
\* posting entries of the ids handed out to it
CrateView(d, h, n) ==
    LET ids == {f \in DOMAIN h.owner : h.owner[f] = n}
    IN  [crate |-> [x \in DOMAIN d.crate \cap {n} |-> d.crate[x]],
         fns |-> [f \in DOMAIN d.fn \cap ids |-> d.fn[f]],
         postings |-> UNION {{<<f, tt[1], tt[2]>> : tt \in PostingsOf(d, f)} : f \in ids}]

AbsentView == [crate |-> << >>, fns |-> << >>, postings |-> {}]

\* the state of crate j.name once the job j is stored completely
NewView(j) ==
    LET n == Len(j.fndetails)
    IN  [crate |-> (j.name :> [version |-> j.version,
                               fn_ids |-> [i \in 1..n |-> j.start + (i - 1)]]),
         fns |-> [f \in IdRange(j.start, n) |-> j.fndetails[f - j.start + 1]],
         postings |->
            UNION {
              {<<j.start + (i - 1), PARAM_TREE, t>> :
                   t \in IF j.fndetails[i].params = << >>
                         THEN {NIL_PARAMS} ELSE Range(j.fndetails[i].params)}
                \cup {<<j.start + (i - 1), RET_TREE, j.fndetails[i].ret>>}
              : i \in 1..n}]

Inside(w) == pc[w] \in {"called", "purged", "reserved"}

\* ids that jobs already called will still reserve
Pending ==
    LET W == {w \in Workers : pc[w] \in {"called", "purged"}}
        RECURSIVE Sum(_)
        Sum(S) == IF S = {} THEN 0
                  ELSE LET w == CHOOSE x \in S : TRUE
                       IN  Len(job[w].fndetails) + Sum(S \ {w})
    IN  Sum(W)

\* worker w enters save_analysis(name, version, fndetails)
Call(w, krate_name, krate_version, fndetails) ==
    /\ ~panicked
    /\ pc[w] = "idle"
    /\ \A x \in Workers \ {w} : pc[x] = "idle" \/ job[x].name # krate_name
    /\ next_fn_id(db) + Pending + Len(fndetails) <= MaxFnId
    /\ hist.calls < MaxCalls
    /\ hist' = [hist EXCEPT !.calls = hist.calls + 1]
    /\ pc' = [pc EXCEPT ![w] = "called"]
    /\ job' = [job EXCEPT ![w] =
                 [name |-> krate_name, version |-> krate_version,
                  fndetails |-> fndetails, start |-> 0, raced |-> FALSE,
                  old |-> CrateView(db, hist, krate_name)]]
    /\ UNCHANGED <<db, idx, panicked, sr, orch, fx, load>>

\* the purge_crate transaction of w's save_analysis
Purge(w) ==
    /\ ~panicked
    /\ pc[w] = "called"
    /\ LET p == purge_crate(db, job[w].name)
       IN  IF ~p.ok
           THEN /\ panicked' = TRUE
                /\ UNCHANGED <<db, hist, pc>>
           ELSE /\ db' = p.db
                /\ hist' = HistPurge(hist, job[w].name)
                /\ pc' = [pc EXCEPT ![w] = "purged"]
                /\ UNCHANGED panicked
    /\ UNCHANGED <<idx, sr, job, orch, fx, load>>

\* the reserve_fn_id_range transaction of w's add_crate
Reserve(w) ==
    /\ ~panicked
    /\ pc[w] = "purged"
    /\ LET r == reserve_fn_id_range(db, Len(job[w].fndetails))
       IN  /\ db' = r.db
           /\ job' = [job EXCEPT ![w].start = r.fn_id]
           /\ hist' = HistReserve(hist, job[w].name, r.fn_id, Len(job[w].fndetails))
    /\ pc' = [pc EXCEPT ![w] = "reserved"]
    /\ UNCHANGED <<idx, panicked, sr, orch, fx, load>>

\* the precomputation and the transaction of w's add_crate
Add(w) ==
    /\ ~panicked
    /\ pc[w] = "reserved"
    /\ LET j == job[w]
           a == add_crate(db, j.name, j.version, j.fndetails, j.start)
       IN  IF ~a.ok
           THEN /\ panicked' = TRUE
                /\ UNCHANGED <<db, hist, pc, job>>
           ELSE /\ db' = a.db
                /\ hist' = HistAdd(hist, j.name, j.version, j.fndetails, j.start)
                /\ pc' = [pc EXCEPT ![w] = "done"]
                /\ job' = [job EXCEPT ![w].raced = \E x \in Workers \ {w} : Inside(x)]
                /\ UNCHANGED panicked
    /\ UNCHANGED <<idx, sr, orch, fx, load>>

\* save_analysis returns to w's caller
Return(w) ==
    /\ ~panicked
    /\ pc[w] = "done"
    /\ pc' = [pc EXCEPT ![w] = "idle"]
    /\ job' = [job EXCEPT ![w] = NoJob]
    /\ UNCHANGED <<db, idx, panicked, hist, sr, orch, fx, load>>

NextConc ==
    \/ \E w \in Workers, n \in CrateNames, v \in Versions :
         \E ds \in ConcDetailLists(n) : Call(w, n, v, ds)
    \/ \E w \in Workers : Purge(w)
    \/ \E w \in Workers : Reserve(w)
    \/ \E w \in Workers : Add(w)
    \/ \E w \in Workers : Return(w)

SpecConc == Init /\ [][NextConc]_vars

(***************************************************************************)
(* Claims about concurrent use.                                            *)
(***************************************************************************)
\* worker w is inside (or has just completed) a save_analysis of a crate that
\* was stored when the call began
Reingesting(w) == pc[w] # "idle" /\ job[w].old.crate # << >>

C8_NoLostUpdate ==
    /\ \A w \in Workers : \A x \in Workers \ {w} :
         (pc[w] \in {"reserved", "done"} /\ pc[x] \in {"reserved", "done"}) =>
            IdRange(job[w].start, Len(job[w].fndetails))
              \cap IdRange(job[x].start, Len(job[x].fndetails)) = {}
    /\ (\A w \in Workers : pc[w] = "done") =>
         \A w \in Workers : \A i \in DOMAIN job[w].fndetails :
           LET fn_id == job[w].start + (i - 1)
               fndetail == job[w].fndetails[i]
           IN  /\ \A j \in DOMAIN fndetail.params :
                    fn_id \in GetOrEmpty(db.param, fndetail.params[j])
               /\ fndetail.params = << >> => fn_id \in GetOrEmpty(db.param, NIL_PARAMS)
               /\ fn_id \in GetOrEmpty(db.ret, fndetail.ret)
               /\ fn_id \in DOMAIN db.fn

\* both workers have completed calls that overlapped, and a param posting
\* holds ids of both crates
C8_Witness ==
    /\ \A w \in Workers : pc[w] = "done" /\ job[w].fndetails # << >>
    /\ \E w \in Workers : job[w].raced
    /\ \E t \in DOMAIN db.param :
         \A w \in Workers : db.param[t] \cap IdRange(job[w].start, Len(job[w].fndetails)) # {}

(***************************************************************************)
(* search.  candidate_types is the list of query columns, each the tree it *)
(* reads and the fuzzy hits (orig_ty, best first) of its query.  The order *)
(* in which a HashSet yields its ids is arbitrary: `order` lists the ids   *)
(* in the order the sets of this call yield them.                          *)
(***************************************************************************)
Tree(d, name) == IF name = RET_TREE THEN d.ret ELSE d.param

Max(S) == IF S = {} THEN 0 ELSE CHOOSE x \in S : \A y \in S : y <= x

\* the depth of a query without columns is 2 instead of 0
max_candidate_depth_default_two(candidate_types) ==
    Max({Len(candidate_types[c].hits) : c \in DOMAIN candidate_types} \cup {2})

\* candidate_types.iter().map(|(_, ct)| ct.len()).max().unwrap_or(0)
max_candidate_depth(candidate_types) ==
    Max({Len(candidate_types[c].hits) : c \in DOMAIN candidate_types})

\* the candidates of a column that iteration i looks up: ct_column[..min(i, len)]
ColumnPrefix(column, i) == SubSeq(column.hits, 1, Min(i, Len(column.hits)))

\* ct_column_fn_ids: the union of the postings of the column's first candidates
ColumnFnIds(d, column, i) ==
    UNION {GetOrEmpty(Tree(d, column.tree), ct) : ct \in Range(ColumnPrefix(column, i))}

\* the expect() on a candidate type without an entry in its tree
ColumnMissing(d, column, i) ==
    \E ct \in Range(ColumnPrefix(column, i)) : ct \notin DOMAIN Tree(d, column.tree)

\* only the first column is looked at
IterationFnIdsFirstColumn(d, candidate_types, i) ==
    ColumnFnIds(d, candidate_types[1], i)

RECURSIVE IntersectColumns(_, _, _, _, _)
\* for the columns after the first: *ifnids = ifnids.intersection(&ct_column_fn_ids)
IntersectColumns(d, candidate_types, i, c, ifnids) ==
    IF c > Len(candidate_types) THEN ifnids
    ELSE IntersectColumns(d, candidate_types, i, c + 1,
                          ifnids \cap ColumnFnIds(d, candidate_types[c], i))

\* iteration_fn_ids: the set of the first column, intersected with the sets of
\* the other columns
IterationFnIds(d, candidate_types, i) ==
    IntersectColumns(d, candidate_types, i, 2, ColumnFnIds(d, candidate_types[1], i))

\* the ids of S in the order the hash sets yield them
InOrder(S, order) == SelectSeq(order, LAMBDA f : f \in S)

\* for i in 1..max_candidate_depth: the range excludes its end, the last
\* iteration is i = max_candidate_depth - 1
SearchLast(depth) == depth - 1

RECURSIVE SearchLoopNoDifference(_, _, _, _, _, _)
\* the ids of an iteration are appended without the difference with fn_ids_set
SearchLoopNoDifference(d, candidate_types, order, i, last, st) ==
    IF i > last \/ ~st.ok
    THEN st
    ELSE IF \E c \in DOMAIN candidate_types : ColumnMissing(d, candidate_types[c], i)
    THEN [st EXCEPT !.ok = FALSE]
    ELSE IF candidate_types = << >>
    THEN [st EXCEPT !.ok = FALSE]
    ELSE LET fn_ids == st.fn_ids \o InOrder(IterationFnIds(d, candidate_types, i), order)
             next == [fn_ids |-> fn_ids,
                      ranges |-> Append(st.ranges, <<Len(st.fn_ids), Len(fn_ids)>>),
                      ok |-> TRUE]
         IN  IF Len(fn_ids) >= MAX_RESULTS
             THEN next
             ELSE SearchLoopNoDifference(d, candidate_types, order, i + 1, last, next)

RECURSIVE SearchLoop(_, _, _, _, _, _)
\* st = [fn_ids, ranges, ok]; a range is <<start, end>>: the ids start+1..end of fn_ids
SearchLoop(d, candidate_types, order, i, last, st) ==
    IF i > last \/ ~st.ok
    THEN st
    ELSE IF \E c \in DOMAIN candidate_types : ColumnMissing(d, candidate_types[c], i)
    THEN [st EXCEPT !.ok = FALSE]
    ELSE IF candidate_types = << >>
    THEN [st EXCEPT !.ok = FALSE]
    ELSE LET ifnids == IterationFnIds(d, candidate_types, i)
             new_fn_ids == InOrder(ifnids \ Range(st.fn_ids), order)
             fn_ids == st.fn_ids \o new_fn_ids
             next == [fn_ids |-> fn_ids,
                      ranges |-> Append(st.ranges, <<Len(st.fn_ids), Len(fn_ids)>>),
                      ok |-> TRUE]
         IN  IF Len(fn_ids) >= MAX_RESULTS
             THEN next
             ELSE SearchLoop(d, candidate_types, order, i + 1, last, next)

\* krate and s compare as strings: "a" < "b", and s = "fn {path}(.." by its path
KrateRank(krate) == IF krate = "a" THEN 1 ELSE 2
PathRank(path) == IF path = "f" THEN 1 ELSE IF path = "g" THEN 2 ELSE 3

\* the comparison of sort_by is Less: krate first, then s
FnLess(fd1, fd2) ==
    \/ KrateRank(fd1.krate) < KrateRank(fd2.krate)
    \/ /\ fd1.krate = fd2.krate
       /\ PathRank(fd1.s[1]) < PathRank(fd2.s[1])

\* slice.sort_by is stable: every item is placed after the items that are not
\* greater than it, so items that compare equal keep their order
StableSort(items) ==
    SortSeq(items, LAMBDA x, y : FnLess(x.fndetail, y.fndetail))

\* the whole result is sorted at once
SortWhole(items, ranges, r) == StableSort(items)

RECURSIVE SortRanges(_, _, _)
\* for range in ranges { ret[range].sort_by(..) }
SortRanges(items, ranges, r) ==
    IF r > Len(ranges) THEN items
    ELSE LET lo == ranges[r][1]
             hi == ranges[r][2]
         IN  SortRanges(SubSeq(items, 1, lo)
                          \o StableSort(SubSeq(items, lo + 1, hi))
                          \o SubSeq(items, hi + 1, Len(items)),
                        ranges, r + 1)

\* the tree is emptied when it is opened
open_tree_cleared(d, name) == [d EXCEPT ![name] = << >>]

\* db.open_tree(name): a tree the store does not have is created empty
open_tree(d, name) ==
    IF name \in DOMAIN d THEN d
    ELSE [x \in DOMAIN d \cup {name} |-> IF x = name THEN << >> ELSE d[x]]

\* the three trees search opens
OpenTrees(d) == open_tree(open_tree(open_tree(d, PARAM_TREE), RET_TREE), FN_TREE)

\* the call panics: an expect() or unwrap() fails
SearchFailed(d) ==
    [ok |-> FALSE, ids |-> << >>, ret |-> << >>, ranges |-> << >>, db |-> d]

\* ret is the returned Vec<FnDetail>, ids the fn ids of its elements
SearchReturn(d, sorted, ranges) ==
    [ok |-> TRUE,
     ids |-> [k \in DOMAIN sorted |-> sorted[k].id],
     ret |-> [k \in DOMAIN sorted |-> sorted[k].fndetail],
     ranges |-> ranges,
     db |-> d]

\* the fn records are fetched (unwrap: a missing record fails) and each
\* iteration's range is sorted
SearchFetch(d, fn_ids, ranges) ==
    IF \E k \in DOMAIN fn_ids : fn_ids[k] \notin DOMAIN d.fn
    THEN SearchFailed(d)
    ELSE SearchReturn(d,
                      SortRanges([k \in DOMAIN fn_ids |->
                                     [id |-> fn_ids[k], fndetail |-> d.fn[fn_ids[k]]]],
                                 ranges, 1),
                      ranges)

\* fn_ids is cut at end and the last range ends there
SearchCut(st, end) ==
    [ok |-> st.ok,
     fn_ids |-> SubSeq(st.fn_ids, 1, end),
     ranges |-> IF st.ranges = << >> THEN << >>
                ELSE [st.ranges EXCEPT
                        ![Len(st.ranges)] = <<st.ranges[Len(st.ranges)][1], end>>]]

\* nothing is cut
SearchTruncateNever(st) == SearchCut(st, Len(st.fn_ids))

\* end = min(fn_ids.len(), MAX_RESULTS)
SearchTruncate(st) == SearchCut(st, Min(Len(st.fn_ids), MAX_RESULTS))

\* the postings are read: [ok, fn_ids, ranges]
SearchCollect(d, candidate_types, order) ==
    SearchTruncate(SearchLoop(d, candidate_types, order, 1,
                              SearchLast(max_candidate_depth(candidate_types)),
                              [fn_ids |-> << >>, ranges |-> << >>, ok |-> TRUE]))

\* the fn records of the collected ids are read from store d
SearchFinish(d, collected) ==
    IF ~collected.ok THEN SearchFailed(d)
    ELSE SearchFetch(d, collected.fn_ids, collected.ranges)

\* [ok, ids, ret, ranges, db]: ok is FALSE when the call panics, db is the
\* store after the call
search(d, candidate_types, order) ==
    SearchFinish(OpenTrees(d), SearchCollect(OpenTrees(d), candidate_types, order))

(***************************************************************************)
(* The fuzzy type index (an external service) and the search action.       *)
(***************************************************************************)
\* load_text_search: both indexes are deleted, created again and filled with
\* one document per key of the param and of the ret tree
TextIndexes(d) ==
    [param_types |-> [exists |-> TRUE, docs |-> DOMAIN d.param],
     ret_types |-> [exists |-> TRUE, docs |-> DOMAIN d.ret]]

LoadTextSearch ==
    /\ ~panicked
    /\ ~sr.done
    /\ idx' = TextIndexes(db)
    /\ UNCHANGED <<db, panicked, hist, sr, pc, job, orch, fx, load>>

Injective(s) == \A i \in DOMAIN s : \A j \in DOMAIN s : s[i] = s[j] => i = j

\* what the service may answer a query with: documents of the index, each at
\* most once, best first, at most FUZZY_SEARCH_LIMIT of them
RankedHits(index) ==
    {h \in SeqsUpTo(index.docs, Min(MaxHits, FUZZY_SEARCH_LIMIT)) : Injective(h)}

Perms(S) == {o \in [1..Cardinality(S) -> S] : Injective(o)}

\* the number of param columns: an empty params_search becomes ["<NOARGS>"]
ParamColumns(params_search) ==
    IF ~params_search.some THEN 0
    ELSE IF params_search.len = 0 THEN 1 ELSE params_search.len

\* params_search is None, Some([]) or Some([q])
ParamQueryLens == {0, 1}

QueryForms ==
    {[ret_search |-> r, params_search |-> [some |-> s, len |-> l]] :
        r \in BOOLEAN, s \in BOOLEAN, l \in ParamQueryLens}

\* search(db, params_search, ret_search), the service answering ret_hits to the
\* ret query and param_hits[k] to the k-th param query
Search(q, ret_hits, param_hits, order) ==
    /\ ~panicked
    /\ ~sr.done
    /\ q.params_search.some \/ q.params_search.len = 0
    /\ LET candidate_types ==
               (IF q.ret_search THEN <<[tree |-> RET_TREE, hits |-> ret_hits]>> ELSE << >>)
                 \o [k \in 1..ParamColumns(q.params_search) |->
                        [tree |-> PARAM_TREE, hits |-> param_hits[k]]]
           unreachable ==
               \/ q.ret_search /\ ~idx.ret_types.exists
               \/ q.params_search.some /\ ~idx.param_types.exists
       IN  \E res \in {search(db, candidate_types, order)} :
             IF unreachable \/ ~res.ok
             THEN /\ panicked' = TRUE
                  /\ db' = res.db
                  /\ sr' = [NoSearch EXCEPT !.done = TRUE, !.ok = FALSE,
                              !.params_search = q.params_search,
                              !.ret_search = q.ret_search,
                              !.candidate_types = candidate_types]
             ELSE /\ panicked' = FALSE
                  /\ db' = res.db
                  /\ sr' = [NoSearch EXCEPT !.done = TRUE,
                              !.params_search = q.params_search,
                              !.ret_search = q.ret_search,
                              !.candidate_types = candidate_types,
                              !.ids = res.ids, !.ret = res.ret,
                              !.ranges = res.ranges]
    /\ UNCHANGED <<idx, hist, pc, job, orch, fx, load>>

\* the caller is done with the result
DropResult ==
    /\ sr.done
    /\ sr' = NoSearch
    /\ panicked' = FALSE
    /\ UNCHANGED <<db, idx, hist, pc, job, orch, fx, load>>

NextSearch ==
    \/ /\ ~sr.done /\ ~idx.param_types.exists
       /\ \E n \in CrateNames : \E ds \in DetailLists(n) :
            /\ next_fn_id(db) + Len(ds) <= MaxSearchFnId
            /\ SaveAnalysis(n, "1.0", ds)
    \/ /\ ~sr.done /\ ~idx.param_types.exists
       /\ \E n \in CrateNames : PurgeCrate(n)
    \/ LoadTextSearch
    \/ /\ ~sr.done
       /\ \E q \in QueryForms :
            \E ret_hits \in IF q.ret_search THEN RankedHits(idx.ret_types) ELSE {<< >>} :
              \E param_hits \in [1..ParamColumns(q.params_search) -> RankedHits(idx.param_types)] :
                \E order \in Perms(StoreIds(db)) :
                  Search(q, ret_hits, param_hits, order)
    \/ DropResult

SpecSearch == Init /\ [][NextSearch]_vars

(***************************************************************************)
(* Claims about search.  The store does not change while a result is held, *)
(* so db is the store the search ran on.                                   *)
(***************************************************************************)
\* the union of the postings of all candidates of a column
AllCandidateIds(d, column) ==
    UNION {GetOrEmpty(Tree(d, column.tree), ct) : ct \in Range(column.hits)}

\* the ids that are in AllCandidateIds of every column
FullIntersection(d, candidate_types) ==
    {f \in StoreIds(d) :
        \A c \in DOMAIN candidate_types : f \in AllCandidateIds(d, candidate_types[c])}

\* C9: with D the length of the longest hit list, search runs the iterations
\* 1..D, so that (below MAX_RESULTS) the returned functions are exactly the
\* intersection over the query columns of the union of the postings of all
\* candidates of the column; with one candidate per column, search(Some([T]),
\* Some(U)) returns the stored functions with param T and ret U.
C9_ReturnsFullIntersection ==
    (sr.done /\ sr.ok /\ sr.candidate_types # << >>) =>
        /\ Range(sr.ids) = FullIntersection(db, sr.candidate_types)
        /\ \A k \in DOMAIN sr.ids : sr.ret[k] = db.fn[sr.ids[k]]

\* C10: every function returned by search satisfies every query column: its
\* fn id is in the posting of at least one candidate type of the column.
C10_ResultsSatisfyEveryColumn ==
    (sr.done /\ sr.ok) =>
        /\ Len(sr.ret) = Len(sr.ids)
        /\ \A k \in DOMAIN sr.ids :
             /\ sr.ids[k] \in DOMAIN db.fn
             /\ sr.ret[k] = db.fn[sr.ids[k]]
             /\ \A c \in DOMAIN sr.candidate_types :
                  \E ct \in Range(sr.candidate_types[c].hits) :
                    sr.ids[k] \in GetOrEmpty(Tree(db, sr.candidate_types[c].tree), ct)

\* a search with a ret and a param column returned a function, and left out a
\* stored function that the first column's best candidate has and the other
\* column's best candidate has not
C10_Witness ==
    /\ sr.done /\ sr.ok
    /\ Len(sr.candidate_types) = 2
    /\ sr.ids # << >>
    /\ \E f \in DOMAIN db.fn :
         /\ f \notin Range(sr.ids)
         /\ f \in ColumnFnIds(db, sr.candidate_types[1], 1)
         /\ f \notin ColumnFnIds(db, sr.candidate_types[2], 1)

\* the first of the iterations 1..D at which f is in the intersection (0: none)
FirstTier(d, candidate_types, f) ==
    LET tiers == {i \in 1..max_candidate_depth(candidate_types) :
                     f \in IterationFnIds(d, candidate_types, i)}
    IN  IF tiers = {} THEN 0 ELSE CHOOSE i \in tiers : \A j \in tiers : i <= j

\* C12: results are tier-ordered: a function that first enters the intersection
\* at iteration i precedes every function that first enters at a later one;
\* for a single-column query the functions in the posting of the rank-1
\* candidate are returned and precede all other functions.
C12_TierOrdered ==
    (sr.done /\ sr.ok /\ sr.candidate_types # << >>) =>
        /\ \A k \in DOMAIN sr.ids : \A l \in DOMAIN sr.ids :
             k < l => FirstTier(db, sr.candidate_types, sr.ids[k])
                        <= FirstTier(db, sr.candidate_types, sr.ids[l])
        /\ (Len(sr.candidate_types) = 1 /\ sr.candidate_types[1].hits # << >>) =>
             LET exact == ColumnFnIds(db, sr.candidate_types[1], 1)
             IN  /\ exact \subseteq Range(sr.ids)
                 /\ \A k \in DOMAIN sr.ids : \A l \in DOMAIN sr.ids :
                      (sr.ids[k] \in exact /\ sr.ids[l] \notin exact) => k < l

\* the result of a search(Some([]), ..) for which the fuzzy service returned
\* <NOARGS>, and only that, to the param query
NoArgsQuery ==
    /\ sr.done /\ sr.ok
    /\ sr.params_search.some /\ sr.params_search.len = 0
    /\ sr.candidate_types[Len(sr.candidate_types)].tree = PARAM_TREE
    /\ sr.candidate_types[Len(sr.candidate_types)].hits = <<NIL_PARAMS>>

\* C14: search(Some([]), ret) looks up the single column <NOARGS>: when the
\* fuzzy service returns <NOARGS> for it, every stored function without
\* parameters that matches ret (its ret is the best ret candidate; any
\* function when ret is None) is returned, and no returned function has a
\* parameter.
C14_NoArgsQueryFindsZeroArgFns ==
    NoArgsQuery =>
        /\ \A f \in DOMAIN db.fn :
             ( /\ db.fn[f].params = << >>
               /\ sr.ret_search => /\ sr.candidate_types[1].hits # << >>
                                   /\ db.fn[f].ret = sr.candidate_types[1].hits[1] )
               => f \in Range(sr.ids)
        /\ \A k \in DOMAIN sr.ret : sr.ret[k].params = << >>

\* C15: search(None, None) returns the empty list whatever the store holds,
\* and runs no iteration (no posting is looked up).
C15_EmptyQueryReturnsNothing ==
    (sr.done /\ ~sr.ret_search /\ ~sr.params_search.some) =>
        /\ sr.ok
        /\ sr.candidate_types = << >>
        /\ sr.ranges = << >>
        /\ sr.ids = << >>
        /\ sr.ret = << >>

\* search(None, None) has returned on a store that holds functions
C15_Witness ==
    /\ sr.done /\ sr.ok
    /\ ~sr.ret_search /\ ~sr.params_search.some
    /\ DOMAIN db.fn # {}
    /\ \E ty \in DOMAIN db.param : db.param[ty] # {}

\* C18: search is read-only: the step in which a search returns (or panics)
\* leaves the counter and the fn, param, ret and crate keyspaces as they were.
C18_SearchReadOnly ==
    [][(~sr.done /\ sr'.done) => db' = db]_vars

\* a search has returned functions it read from the store
C18_Witness ==
    /\ sr.done /\ sr.ok
    /\ sr.ids # << >>
    /\ next_fn_id(db) > 0

\* C33: no function appears twice in a search result: an fn id emitted in one
\* iteration's tier is excluded from every later tier (the tiers are
\* consecutive, disjoint stretches of the result), although the candidate
\* sets of the columns grow from iteration to iteration and hold it again.
C33_NoFunctionTwice ==
    (sr.done /\ sr.ok) =>
        /\ Injective(sr.ids)
        /\ \A r \in DOMAIN sr.ranges :
             /\ sr.ranges[r][1] = IF r = 1 THEN 0 ELSE sr.ranges[r - 1][2]
             /\ sr.ranges[r][1] <= sr.ranges[r][2]
             /\ r = Len(sr.ranges) => sr.ranges[r][2] = Len(sr.ids)
        /\ \A r \in DOMAIN sr.ranges : \A k \in (sr.ranges[r][1] + 1)..sr.ranges[r][2] :
             /\ sr.ids[k] \in IterationFnIds(db, sr.candidate_types, r)
             /\ \A q \in 1..(r - 1) :
                  sr.ids[k] \notin IterationFnIds(db, sr.candidate_types, q)

\* a search ran two iterations that both emitted a function, and the
\* function of the first tier is in the candidate sets of the second
\* iteration again
C33_Witness ==
    /\ sr.done /\ sr.ok
    /\ Len(sr.ranges) = 2
    /\ sr.ranges[1][2] > sr.ranges[1][1]
    /\ sr.ranges[2][2] > sr.ranges[2][1]
    /\ sr.ids[1] \in IterationFnIds(db, sr.candidate_types, 2)

(***************************************************************************)
(* A fuzzy index that was not loaded from the store that is searched: the  *)
(* service is shared, and load_text_search ran on a store at another path. *)
(***************************************************************************)
\* the stores at the other path: one crate saved into an empty store
OtherStores ==
    {add_crate(reserve_fn_id_range(open_db(EmptyDb), Len(ds)).db, "a", "1.0", ds, 0).db :
        ds \in DetailLists("a")}

LoadTextSearchOther(other) ==
    /\ ~panicked
    /\ ~sr.done
    /\ ~idx.param_types.exists
    /\ idx' = TextIndexes(other)
    /\ UNCHANGED <<db, panicked, hist, sr, pc, job, orch, fx, load>>

NextStale ==
    \/ /\ ~sr.done /\ ~idx.param_types.exists
       /\ \E n \in CrateNames : \E ds \in DetailLists(n) :
            /\ next_fn_id(db) + Len(ds) <= MaxSearchFnId
            /\ SaveAnalysis(n, "1.0", ds)
    \/ \E other \in OtherStores : LoadTextSearchOther(other)
    \/ /\ ~sr.done
       /\ \E q \in QueryForms :
            \E ret_hits \in IF q.ret_search THEN RankedHits(idx.ret_types) ELSE {<< >>} :
              \E param_hits \in [1..ParamColumns(q.params_search) -> RankedHits(idx.param_types)] :
                \E order \in Perms(StoreIds(db)) :
                  Search(q, ret_hits, param_hits, order)
    \/ DropResult

SpecStale == Init /\ [][NextStale]_vars

\* a candidate type of the query has no key in the tree of its column
StaleCandidate ==
    \E c \in DOMAIN sr.candidate_types :
      \E k \in DOMAIN sr.candidate_types[c].hits :
        sr.candidate_types[c].hits[k]
            \notin DOMAIN Tree(db, sr.candidate_types[c].tree)

\* C16: when the fuzzy index returns a candidate type that has no key in the
\* param or ret keyspace, search takes its posting as empty and returns a
\* result: it does not crash, and what it returns satisfies every column.
C16_StaleCandidateIsEmptyPosting ==
    (sr.done /\ StaleCandidate) => (sr.ok /\ C10_ResultsSatisfyEveryColumn)

(***************************************************************************)
(* A fuzzy index that was loaded from the store that is searched, at an    *)
(* earlier time: save_analysis and purge_crate run between                 *)
(* load_text_search and search.                                            *)
(***************************************************************************)
NextGrow ==
    \/ /\ ~sr.done
       /\ \E n \in CrateNames : \E ds \in DetailLists(n) :
            /\ next_fn_id(db) + Len(ds) <= MaxSearchFnId
            /\ SaveAnalysis(n, "1.0", ds)
    \/ /\ ~sr.done
       /\ \E n \in CrateNames : PurgeCrate(n)
    \/ LoadTextSearch
    \/ /\ ~sr.done
       /\ \E q \in QueryForms :
            \E ret_hits \in IF q.ret_search THEN RankedHits(idx.ret_types) ELSE {<< >>} :
              \E param_hits \in [1..ParamColumns(q.params_search) -> RankedHits(idx.param_types)] :
                \E order \in Perms(StoreIds(db)) :
                  Search(q, ret_hits, param_hits, order)
    \/ DropResult

SpecGrow == Init /\ [][NextGrow]_vars

\* C37: the key sets of the param and the ret keyspace only grow (no
\* save_analysis and no purge_crate removes a key), so every candidate type
\* of a fuzzy index that was loaded from this store at an earlier time has an
\* entry when search looks it up: the lookup of a candidate type of such an
\* index never fails.
C37_LoadedCandidatesKeepEntries ==
    /\ [][/\ DOMAIN db.param \subseteq DOMAIN db'.param
          /\ DOMAIN db.ret \subseteq DOMAIN db'.ret]_vars
    /\ [](/\ idx.param_types.docs \subseteq DOMAIN db.param
          /\ idx.ret_types.docs \subseteq DOMAIN db.ret
          /\ sr.done =>
               /\ ~StaleCandidate
               /\ \A c \in DOMAIN sr.candidate_types :
                    ~ColumnMissing(db, sr.candidate_types[c],
                                   max_candidate_depth(sr.candidate_types))
               /\ (idx.param_types.exists /\ idx.ret_types.exists) => sr.ok)

\* a search returned whose candidate type was taken from an index loaded
\* before the store grew a key, and the posting of the candidate was emptied
\* by a purge and is still there
C37_Witness ==
    /\ sr.done /\ sr.ok
    /\ \E t \in DOMAIN db.param \cup DOMAIN db.ret :
         t \notin idx.param_types.docs \cup idx.ret_types.docs
    /\ \E c \in DOMAIN sr.candidate_types :
         \E k \in 1..(Len(sr.candidate_types[c].hits) - 1) :
           \E t \in {sr.candidate_types[c].hits[k]} :
             /\ t \in DOMAIN Tree(db, sr.candidate_types[c].tree)
             /\ Tree(db, sr.candidate_types[c].tree)[t] = {}
    /\ DOMAIN db.fn # {}

(***************************************************************************)
(* A search beside a writer.  search runs in no transaction: the process   *)
(* that writes the store may commit a purge_crate or add_crate transaction *)
(* between the reads of the postings and the reads of the fn records.      *)
(***************************************************************************)
\* the fuzzy queries and the loop over the postings (lib.rs:141-211)
SearchBegin(q, ret_hits, param_hits, order) ==
    /\ ~panicked
    /\ ~sr.done /\ ~sr.fetching
    /\ idx.param_types.exists
    /\ q.params_search.some \/ q.params_search.len = 0
    /\ LET candidate_types ==
               (IF q.ret_search THEN <<[tree |-> RET_TREE, hits |-> ret_hits]>> ELSE << >>)
                 \o [k \in 1..ParamColumns(q.params_search) |->
                        [tree |-> PARAM_TREE, hits |-> param_hits[k]]]
       IN  \E collected \in {SearchCollect(OpenTrees(db), candidate_types, order)} :
             /\ db' = OpenTrees(db)
             /\ panicked' = ~collected.ok
             /\ sr' = [NoSearch EXCEPT !.done = ~collected.ok,
                         !.ok = collected.ok,
                         !.fetching = collected.ok,
                         !.params_search = q.params_search,
                         !.ret_search = q.ret_search,
                         !.candidate_types = candidate_types,
                         !.ids = collected.fn_ids,
                         !.ranges = collected.ranges]
    /\ UNCHANGED <<idx, hist, pc, job, orch, fx, load>>

\* the reads of the fn records, the sort and the return (lib.rs:213-227)
SearchEnd ==
    /\ sr.fetching
    /\ \E res \in {SearchFetch(db, sr.ids, sr.ranges)} :
         /\ panicked' = ~res.ok
         /\ sr' = [sr EXCEPT !.done = TRUE, !.fetching = FALSE, !.ok = res.ok,
                     !.ids = res.ids, !.ret = res.ret,
                     !.dangling = Range(sr.ids) \ DOMAIN db.fn]
    /\ UNCHANGED <<db, idx, hist, pc, job, orch, fx, load>>

NextRace ==
    \/ /\ ~sr.done /\ ~idx.param_types.exists
       /\ \E n \in CrateNames : \E ds \in DetailLists(n) :
            /\ next_fn_id(db) + Len(ds) <= MaxSearchFnId
            /\ SaveAnalysis(n, "1.0", ds)
    \/ LoadTextSearch /\ ~idx.param_types.exists
    \/ /\ ~sr.done /\ ~sr.fetching
       /\ \E q \in QueryForms :
            \E ret_hits \in IF q.ret_search THEN RankedHits(idx.ret_types) ELSE {<< >>} :
              \E param_hits \in [1..ParamColumns(q.params_search) -> RankedHits(idx.param_types)] :
                \E order \in Perms(StoreIds(db)) :
                  SearchBegin(q, ret_hits, param_hits, order)
    \/ /\ sr.fetching
       /\ \E n \in CrateNames : PurgeCrate(n)
    \/ /\ sr.fetching
       /\ \E n \in CrateNames : \E ds \in DetailLists(n) :
            /\ next_fn_id(db) + Len(ds) <= MaxSearchFnId
            /\ SaveAnalysis(n, "1.1", ds)
    \/ SearchEnd
    \/ DropResult

SpecRace == Init /\ [][NextRace]_vars

\* C17: a search that read an fn id from a posting and finds its fn record
\* removed by a purge_crate or save_analysis that ran meanwhile skips the id:
\* it returns, and what it returns are the collected functions that remain.
C17_DanglingIdsSkipped ==
    (sr.done /\ sr.dangling # {}) =>
        /\ sr.ok
        /\ Range(sr.ids) \cap sr.dangling = {}
        /\ \A k \in DOMAIN sr.ids : sr.ret[k] = db.fn[sr.ids[k]]

(***************************************************************************)
(* Search over a store that holds more than MAX_RESULTS functions.  Crate  *)
(* a has n functions g(T) -> U; crate b has two functions h(U, T, T) -> T  *)
(* and the function f() -> U.                                              *)
(***************************************************************************)
Repeat(x, n) == [i \in 1..n |-> x]

ShapeOf(path) == CHOOSE sh \in Shapes : sh.path = path

\* the sizes of crate a: with the two h of crate b, the posting of param T
\* holds one id less than MAX_RESULTS, MAX_RESULTS ids, one id more
BigSizes == {MAX_RESULTS - 3, MAX_RESULTS - 2, MAX_RESULTS - 1}

BigDetailsA(n) == Repeat(FnDetail("a", ShapeOf("g")), n)

BigDetailsB == Repeat(FnDetail("b", ShapeOf("h")), 2) \o <<FnDetail("b", ShapeOf("f"))>>

\* the store after save_analysis("a", "1.0", da) and save_analysis("b", "1.0", db_)
\* on an empty store: the ids are handed out in the order of the details
BulkStore(da, db_) ==
    LET all == da \o db_
        ids == 0..(Len(all) - 1)
        ptypes == UNION {Range(ParamsOrNil(all[i])) : i \in DOMAIN all}
        rtypes == {all[i].ret : i \in DOMAIN all}
    IN  [meta |-> (FN_ID_COUNTER :> Len(all)),
         param |-> [ty \in ptypes |-> {f \in ids : ty \in Range(ParamsOrNil(all[f + 1]))}],
         ret |-> [ty \in rtypes |-> {f \in ids : all[f + 1].ret = ty}],
         fn |-> [f \in ids |-> all[f + 1]],
         crate |-> ("a" :> [version |-> "1.0", fn_ids |-> [i \in DOMAIN da |-> i - 1]])
                   @@ ("b" :> [version |-> "1.0",
                               fn_ids |-> [i \in DOMAIN db_ |-> Len(da) + i - 1]]),
         error |-> << >>]

\* the history of these two calls
BulkHist(da, db_) ==
    LET ids == 0..(Len(da) + Len(db_) - 1)
    IN  [assigned |-> [f \in ids |-> 1],
         owner |-> [f \in ids |-> IF f < Len(da) THEN "a" ELSE "b"],
         stored |-> ids,
         maxctr |-> Len(da) + Len(db_),
         calls |-> 0,
         last |-> ("a" :> [op |-> "saved", version |-> "1.0", fndetails |-> da, start |-> 0])
                  @@ ("b" :> [op |-> "saved", version |-> "1.0", fndetails |-> db_,
                              start |-> Len(da)])]

\* two of the orders in which a HashSet yields ids: ascending and descending
HashOrders(S) ==
    { [i \in 1..Cardinality(S) |-> i - 1], [i \in 1..Cardinality(S) |-> Cardinality(S) - i] }

\* the store is filled and load_text_search has run
InitBig ==
    /\ \E n \in BigSizes :
         /\ db = BulkStore(BigDetailsA(n), BigDetailsB)
         /\ hist = BulkHist(BigDetailsA(n), BigDetailsB)
    /\ idx = TextIndexes(db)
    /\ panicked = FALSE
    /\ sr = NoSearch
    /\ pc = [w \in Workers |-> "idle"]
    /\ job = [w \in Workers |-> NoJob]
    /\ orch = NoRun
    /\ fx = NoEval
    /\ load = NoLoad

NextBig ==
    \/ /\ ~sr.done
       /\ \E q \in QueryForms :
            \E ret_hits \in IF q.ret_search THEN RankedHits(idx.ret_types) ELSE {<< >>} :
              \E param_hits \in [1..ParamColumns(q.params_search) -> RankedHits(idx.param_types)] :
                \E order \in HashOrders(DOMAIN db.fn) :
                  Search(q, ret_hits, param_hits, order)
    \/ DropResult

SpecBig == InitBig /\ [][NextBig]_vars

\* the ids the iterations 1..i find
Emitted(d, candidate_types, i) ==
    UNION {IterationFnIds(d, candidate_types, j) : j \in 1..i}

\* the iterations search runs: up to the first that brings the emitted ids to
\* MAX_RESULTS, or all of them
IterationsRun(d, candidate_types) ==
    LET last == SearchLast(max_candidate_depth(candidate_types))
        full == {i \in 1..last : Cardinality(Emitted(d, candidate_types, i)) >= MAX_RESULTS}
    IN  IF full = {} THEN Max({0, last}) ELSE CHOOSE i \in full : \A j \in full : i <= j

\* C11: search returns at most MAX_RESULTS FnDetails; once the iterations have
\* emitted MAX_RESULTS ids or more the loop stops (no later iteration runs)
\* and the last tier is truncated so that exactly MAX_RESULTS are returned.
C11_AtMostMaxResults ==
    (sr.done /\ sr.ok) =>
        LET run == IterationsRun(db, sr.candidate_types)
            emitted == Cardinality(Emitted(db, sr.candidate_types, run))
        IN  /\ Len(sr.ret) <= MAX_RESULTS
            /\ Len(sr.ranges) = run
            /\ Len(sr.ret) = Min(emitted, MAX_RESULTS)
            /\ sr.ranges # << >> => sr.ranges[Len(sr.ranges)][2] = Len(sr.ret)

\* the first iteration emitted more than MAX_RESULTS ids: the second did not
\* run and MAX_RESULTS FnDetails were returned
C11_Witness ==
    /\ sr.done /\ sr.ok
    /\ SearchLast(max_candidate_depth(sr.candidate_types)) = 2
    /\ Cardinality(Emitted(db, sr.candidate_types, 1)) > MAX_RESULTS
    /\ Len(sr.ranges) = 1
    /\ Len(sr.ret) = MAX_RESULTS

\* C13: within each tier of a result, a truncated last tier included, the
\* FnDetails are in non-decreasing order of (krate, s); the tiers tile the
\* result and every result is in the tier of the iteration that found it.
C13_SortedWithinTiers ==
    (sr.done /\ sr.ok) =>
        /\ sr.ranges # << >> => sr.ranges[Len(sr.ranges)][2] = Len(sr.ret)
        /\ sr.ranges = << >> => sr.ret = << >>
        /\ \A r \in DOMAIN sr.ranges :
             LET lo == sr.ranges[r][1]
                 hi == sr.ranges[r][2]
             IN  /\ lo = IF r = 1 THEN 0 ELSE sr.ranges[r - 1][2]
                 /\ lo <= hi
                 /\ \A k \in (lo + 1)..(hi - 1) : ~FnLess(sr.ret[k + 1], sr.ret[k])
                 /\ {sr.ids[k] : k \in (lo + 1)..hi}
                      \subseteq (IterationFnIds(db, sr.candidate_types, r)
                                   \ Emitted(db, sr.candidate_types, r - 1))

\* a result of two tiers whose last tier was truncated and holds functions of
\* both crates
C13_Witness ==
    /\ sr.done /\ sr.ok
    /\ Len(sr.ranges) = 2
    /\ sr.ranges[1][2] > 0
    /\ Len(sr.ret) = MAX_RESULTS
    /\ Cardinality(Emitted(db, sr.candidate_types, 2)) > MAX_RESULTS
    /\ sr.ret[sr.ranges[2][1] + 1].krate = "a"
    /\ sr.ret[MAX_RESULTS].krate = "b"


\* C34: search is deterministic: a call with the same query against the same
\* store and the same fuzzy hit lists returns the same sequence of FnDetails
\* in whatever order the hash sets yield their ids, also when the result is
\* truncated to MAX_RESULTS.
C34_SearchDeterministic ==
    (sr.done /\ sr.ok) =>
        \A order \in HashOrders(DOMAIN db.fn) :
          \E again \in {search(db, sr.candidate_types, order)} :
            again.ok /\ again.ret = sr.ret

(***************************************************************************)
(* The orchestrator: AnalyzeAllCrates filters the index by has_crate and   *)
(* hands every remaining crate to a child in a container; each result is   *)
(* finished by cli_finish_and_save_analysis, in the order the futures      *)
(* complete.                                                               *)
(***************************************************************************)
\* [db, panicked, hist] after save_analysis: purge_crate, then add_crate
save_analysis(d, h, krate_name, krate_version, fndetails) ==
    LET p == purge_crate(d, krate_name)
        r == reserve_fn_id_range(p.db, Len(fndetails))
        a == add_crate(r.db, krate_name, krate_version, fndetails, r.fn_id)
        hr == HistReserve(HistPurge(h, krate_name), krate_name, r.fn_id, Len(fndetails))
    IN  IF ~p.ok THEN [db |-> d, panicked |-> TRUE, hist |-> h]
        ELSE IF ~a.ok THEN [db |-> r.db, panicked |-> TRUE, hist |-> hr]
        ELSE [db |-> a.db, panicked |-> FALSE,
              hist |-> HistAdd(hr, krate_name, krate_version, fndetails, r.fn_id)]

\* save_analysis with an empty details list; the message is recorded in the
\* error keyspace under the crate name
save_analysis_error(d, h, krate_name, krate_version, error_msg) ==
    LET s == save_analysis(d, h, krate_name, krate_version, << >>)
    IN  IF s.panicked THEN s
        ELSE [s EXCEPT !.db.error = Insert(s.db.error, krate_name, error_msg)]

\* the message of an analysis that reported an error
AnalysisError == "analysis error"

\* what the worker of one crate meets: a panic (of remove_dir_all on the
\* scratch directory, or of the assert_eq! on the name and version the child
\* printed), how tar ends ("partial": it fails after writing some files),
\* the prepare run, the analyze run, and whether the output of the analyze run
\* parses, to which record
ChildRun(panic, tar, prep, analyze, parses, res) ==
    [panic |-> panic, tar |-> tar, prep |-> prep, analyze |-> analyze,
     parses |-> parses, res |-> res]

Left(fndetails) == [kind |-> "Left", fndetails |-> fndetails, err |-> ""]

Right(err) == [kind |-> "Right", fndetails |-> << >>, err |-> err]

Err == [kind |-> "Err", fndetails |-> << >>, err |-> ""]

\* the details lists an analysis in the container prints: none, or one fn
ChildDetailLists(name) ==
    {<< >>} \cup {<<FnDetail(name, sh)>> : sh \in {x \in Shapes : x.path = "g"}}

ChildRuns(name) ==
    {ChildRun("none", "ok", TRUE, TRUE, TRUE, Left(ds)) : ds \in ChildDetailLists(name)}
      \cup {ChildRun("none", "ok", TRUE, TRUE, TRUE, Right(AnalysisError)),
            ChildRun("none", "failed", TRUE, TRUE, TRUE, Err),
            ChildRun("none", "partial", TRUE, TRUE, TRUE, Err),
            ChildRun("none", "ok", FALSE, TRUE, TRUE, Err),
            ChildRun("none", "ok", TRUE, FALSE, TRUE, Err),
            ChildRun("none", "ok", TRUE, TRUE, FALSE, Err),
            ChildRun("remove", "ok", TRUE, TRUE, TRUE, Err),
            ChildRun("mismatch", "ok", TRUE, TRUE, TRUE, Right(AnalysisError))}

\* Err when a podman run exits with a failure or its output does not parse
container_analyze_crate_path(run) ==
    IF ~run.prep THEN Err
    ELSE IF ~run.analyze THEN Err
    ELSE IF ~run.parses THEN Err
    ELSE run.res

\* the scratch directory of a crate is "absent", "partial" (what a failed tar
\* left), "crate" (the extracted crate) or "mixed" (the crate extracted over
\* other contents).  The directory after tar has extracted the crate into it:
Extracted(dir) == IF dir = "absent" THEN "crate" ELSE "mixed"

\* fs::remove_dir_all
remove_dir_all(dir) == "absent"

\* the job of a worker on the scratch directory dir.  [panics, res, dir,
\* analyzed]: dir is the directory when the job is over, analyzed what the
\* containers were given ("none" when they did not run)
container_analyze_crate(dir, run) ==
    IF run.panic = "remove"
    THEN [panics |-> TRUE, res |-> Err, dir |-> dir, analyzed |-> "none"]
    ELSE LET cleared == remove_dir_all(dir)
         IN  IF run.tar = "failed"
             THEN [panics |-> FALSE, res |-> Err, dir |-> cleared, analyzed |-> "none"]
             ELSE IF run.tar = "partial"
             THEN [panics |-> FALSE, res |-> Err, dir |-> "partial", analyzed |-> "none"]
             ELSE LET extracted == Extracted(cleared)
                      res == container_analyze_crate_path(run)
                  IN  [panics |-> res.kind # "Err" /\ run.panic = "mismatch",
                       res |-> res,
                       dir |-> remove_dir_all(extracted),
                       analyzed |-> extracted]

\* the highest version of every crate of the index; also the crates of the
\* fixed list with their versions
Indexes == UNION {[S -> Versions] : S \in SUBSET CrateNames}

\* the pairs of a list of crates
Pairs(index) == {<<n, index[n]>> : n \in DOMAIN index}

\* cli_container_parallel_process_crates: the counter and the futures of the
\* crates handed over; known: those of them that has_crate held at the
\* enumeration
StartRun(o, crates, opened) ==
    [o EXCEPT
       !.running = TRUE,
       !.runs = @ + 1,
       !.known = {p \in crates : has_crate(opened, p[1], p[2])},
       !.pending = crates,
       !.results = << >>,
       !.lost = {},
       !.aborted = FALSE,
       !.logged = FALSE,
       !.count = [errored |-> 0, processed |-> 0, total |-> Cardinality(crates)]]

\* AnalyzeAllCrates: opens the store, keeps the crates has_crate does not
\* know at their highest version, and starts the run over them
AnalyzeAllCrates(index) ==
    /\ ~panicked
    /\ ~orch.running
    /\ orch.runs < MaxRuns
    /\ LET opened == open_db(db)
           crates == {p \in Pairs(index) : ~has_crate(opened, p[1], p[2])}
       IN  /\ db' = opened
           /\ orch' = StartRun(orch, crates, opened)
    /\ UNCHANGED <<idx, panicked, hist, sr, pc, job, fx, load>>

\* AnalyzeTop100Crates: opens the store and starts the run over every crate
\* of the fetched list
AnalyzeTop100Crates(list) ==
    /\ ~panicked
    /\ ~orch.running
    /\ orch.runs < MaxRuns
    /\ LET opened == open_db(db)
       IN  /\ db' = opened
           /\ orch' = StartRun(orch, Pairs(list), opened)
    /\ UNCHANGED <<idx, panicked, hist, sr, pc, job, fx, load>>

RECURSIVE ResultFns(_, _)
\* the number of fn details in the results that wait to be saved
ResultFns(results, S) ==
    IF S = {} THEN 0
    ELSE LET p == CHOOSE x \in S : TRUE
         IN  Len(results[p].res.fndetails) + ResultFns(results, S \ {p})

\* the closure a worker of the pool runs for one crate.  A panic of the worker
\* leaves the future of the crate without a result: the pool either never
\* completes it or takes the orchestrator down with it
PoolExecute(name, version, run, aborts) ==
    /\ orch.running /\ ~orch.aborted
    /\ <<name, version>> \in orch.pending
    /\ next_fn_id(db) + ResultFns(orch.results, DOMAIN orch.results)
         + Len(run.res.fndetails) <= MaxFnId
    /\ \E j \in {container_analyze_crate(orch.scratch[<<name, version>>], run)} :
         orch' = IF j.panics
                 THEN [orch EXCEPT
                         !.pending = @ \ {<<name, version>>},
                         !.scratch[<<name, version>>] = j.dir,
                         !.lost = @ \cup {<<name, version>>},
                         !.aborted = aborts]
                 ELSE [orch EXCEPT
                         !.pending = @ \ {<<name, version>>},
                         !.scratch[<<name, version>>] = j.dir,
                         !.results = Insert(@, <<name, version>>,
                                            [res |-> j.res, analyzed |-> j.analyzed])]
    /\ UNCHANGED <<db, idx, panicked, hist, sr, pc, job, fx, load>>

\* the Err arm falls through to the count of the processed crates
CountedWithoutReturn(count, kind) ==
    [count EXCEPT !.errored = IF kind = "Err" THEN @ + 1 ELSE @,
                  !.processed = @ + 1]

\* the counter after cli_finish_and_save_analysis has handled a result
Counted(count, kind) ==
    IF kind = "Err" THEN [count EXCEPT !.errored = @ + 1]
    ELSE [count EXCEPT !.processed = @ + 1]

\* cli_finish_and_save_analysis on the result of one crate of the run
FinishAndSaveAnalysis(name, version) ==
    /\ ~panicked
    /\ orch.running /\ ~orch.aborted
    /\ <<name, version>> \in DOMAIN orch.results
    /\ \E res \in {orch.results[<<name, version>>].res} :
       \E s \in {IF res.kind = "Left"
                 THEN save_analysis(db, hist, name, version, res.fndetails)
                 ELSE IF res.kind = "Right"
                 THEN save_analysis_error(db, hist, name, version, res.err)
                 ELSE [db |-> db, panicked |-> FALSE, hist |-> hist]} :
         /\ db' = s.db
         /\ panicked' = s.panicked
         /\ hist' = s.hist
         /\ orch' = [orch EXCEPT
                       !.results = Remove(@, <<name, version>>),
                       !.last = [res |-> res.kind, name |-> name, version |-> version],
                       !.count = IF s.panicked THEN @ ELSE Counted(@, res.kind)]
    /\ UNCHANGED <<idx, sr, pc, job, fx, load>>

\* every future of the run has completed: the final summary is logged
RunFinished ==
    /\ orch.running /\ ~orch.aborted /\ ~orch.logged
    /\ orch.pending = {}
    /\ orch.results = << >>
    /\ orch.lost = {}
    /\ orch' = [orch EXCEPT !.logged = TRUE]
    /\ UNCHANGED <<db, idx, panicked, hist, sr, pc, job, fx, load>>

\* the process of the orchestrator is over, after the summary or taken down
\* by a panic: the counter and the futures are gone, the scratch directories
\* stay
ProcessExit ==
    /\ orch.running
    /\ orch.logged \/ orch.aborted
    /\ orch' = [NoRun EXCEPT !.runs = orch.runs, !.scratch = orch.scratch]
    /\ UNCHANGED <<db, idx, panicked, hist, sr, pc, job, fx, load>>

NextOrch ==
    \/ \E index \in Indexes : AnalyzeAllCrates(index)
    \/ \E list \in Indexes : AnalyzeTop100Crates(list)
    \/ \E n \in CrateNames, v \in Versions :
         \E run \in ChildRuns(n), aborts \in BOOLEAN : PoolExecute(n, v, run, aborts)
    \/ \E n \in CrateNames, v \in Versions : FinishAndSaveAnalysis(n, v)
    \/ RunFinished
    \/ ProcessExit

SpecOrch == Init /\ [][NextOrch]_vars

\* the crate and version cli_finish_and_save_analysis handled last
LastName == orch.last.name

LastVersion == orch.last.version

\* C19: after save_analysis_error(name, version, msg), has_crate(name, version)
\* is true, the crate record lists no fn id, and no fn record and no posting
\* holds an id that was assigned to the crate: functions stored for it before
\* are removed, as by save_analysis with an empty details list.
C19_ErrorSaveLeavesEmptyCrate ==
    orch.last.res = "Right" =>
      /\ has_crate(db, LastName, LastVersion)
      /\ db.crate[LastName].fn_ids = << >>
      /\ \A f \in StoreIds(db) \cup DOMAIN hist.owner :
           (f \in DOMAIN hist.owner /\ hist.owner[f] = LastName) =>
              (f \notin DOMAIN db.fn /\ PostingsOf(db, f) = {})
      /\ \A f \in StoreIds(db) : f \in DOMAIN hist.owner

\* the error was saved for a crate that had fns stored by an earlier run,
\* while the other crate keeps its fns
C19_Witness ==
    /\ orch.last.res = "Right"
    /\ has_crate(db, LastName, LastVersion)
    /\ \E f \in hist.stored : hist.owner[f] = LastName
    /\ DOMAIN db.fn # {}

\* C20: when the child process of a crate fails, crashes or prints output
\* that does not parse, a failure record is persisted, so that
\* has_crate(name, version) is true afterwards.
C20_ChildFailureIsPersisted ==
    orch.last.res = "Err" => has_crate(db, LastName, LastVersion)

\* the run has nothing left to do: it was taken down, or every worker is over
\* and every result is handled
RunQuiescent ==
    orch.running /\ (orch.aborted \/ (orch.pending = {} /\ orch.results = << >>))

\* C22: if the worker of a crate panics, the orchestrator is not stopped, it
\* handles the result of every other crate and counts the crate of the
\* panicked worker as a failure: once nothing is left to do, every crate of
\* the run is counted as processed or errored.
C22_WorkerPanicIsRecorded ==
    (orch.lost # {} /\ RunQuiescent) =>
      /\ ~orch.aborted
      /\ orch.count.processed + orch.count.errored = orch.count.total

\* C23: no extraction starts for a pair that has_crate held when the crates
\* were enumerated, from the fixed list or from the index: such a pair, if
\* handed to the pool at all, never leaves the pending ones.
C23_KnownCratesNotExtracted ==
    \A p \in orch.known : p \in orch.pending

\* C24: every handled result has incremented exactly one of processed and
\* errored, once: processed + errored is the number of handled results, it
\* never exceeds total, and when the final summary is logged it equals total
\* and no result is left.
C24_CounterAccountsForResults ==
    LET unhandled == Cardinality(orch.pending) + Cardinality(DOMAIN orch.results)
                       + Cardinality(orch.lost)
    IN  /\ orch.count.processed + orch.count.errored <= orch.count.total
        /\ orch.count.processed + orch.count.errored + unhandled = orch.count.total
        /\ orch.logged =>
              /\ orch.count.processed + orch.count.errored = orch.count.total
              /\ orch.pending = {} /\ orch.results = << >> /\ orch.lost = {}

\* the summary of a run over two crates is logged: one processed, one errored
C24_Witness ==
    /\ orch.logged
    /\ orch.count = [errored |-> 1, processed |-> 1, total |-> 2]

\* C25: when the job of a crate has returned (its result is there), the
\* scratch directory of the crate is removed, and what the containers were
\* given was extracted into a cleared directory; on success and on every
\* failure that is not a panic.
C25_ScratchClearedAndRemoved ==
    \A p \in DOMAIN orch.results :
      /\ orch.scratch[p] = "absent"
      /\ orch.results[p].analyzed # "mixed"

(***************************************************************************)
(* Functions of the command line and of the index load that depend on      *)
(* their arguments only.  A string is the sequence of its characters.      *)
(***************************************************************************)
\* a call that has its arguments and has not run
ToRun(fn, input) == [fn |-> fn, input |-> input, output |-> << >>, done |-> FALSE]

Delimiters == {"<", ">", "[", "]", "&"}

TypeChars == Delimiters \cup {" ", "a"}

\* &Vec<u8>
ExampleType == <<"&", "V", "e", "c", "<", "u", "8", ">">>

TypeStrs == SeqsUpTo(TypeChars, MaxTypeLen) \cup {ExampleType}

RECURSIVE ReplaceCharAfterOnly(_, _)
\* the replacement puts a space after c only
ReplaceCharAfterOnly(s, c) ==
    IF s = << >> THEN << >>
    ELSE (IF Head(s) = c THEN <<c, " ">> ELSE <<Head(s)>>)
            \o ReplaceCharAfterOnly(Tail(s), c)

RECURSIVE ReplaceChar(_, _)
\* s.replace(c, " c ")
ReplaceChar(s, c) ==
    IF s = << >> THEN << >>
    ELSE (IF Head(s) = c THEN <<" ", c, " ">> ELSE <<Head(s)>>)
            \o ReplaceChar(Tail(s), c)

RECURSIVE ReplaceTwoSpaces(_)
\* s.replace("  ", " "): the matches are taken from the left and do not overlap
ReplaceTwoSpaces(s) ==
    IF Len(s) < 2 THEN s
    ELSE IF s[1] = " " /\ s[2] = " "
    THEN <<" ">> \o ReplaceTwoSpaces(SubSeq(s, 3, Len(s)))
    ELSE <<s[1]>> \o ReplaceTwoSpaces(Tail(s))

\* one pass of the replacement instead of the loop
CollapseOnce(s) == ReplaceTwoSpaces(s)

RECURSIVE Collapse(_)
\* the loop of tokenize_type: replace until nothing changes
Collapse(s) ==
    LET news == ReplaceTwoSpaces(s)
    IN  IF news = s THEN s ELSE Collapse(news)

tokenize_type(s) ==
    Collapse(ReplaceChar(ReplaceChar(ReplaceChar(ReplaceChar(ReplaceChar(
        s, "<"), ">"), "["), "]"), "&"))

TokenizeType ==
    /\ fx.fn = "tokenize_type"
    /\ ~fx.done
    /\ fx' = [fx EXCEPT !.output = tokenize_type(fx.input), !.done = TRUE]
    /\ UNCHANGED <<db, idx, panicked, hist, sr, pc, job, orch, load>>

\* the number of occurrences of c in s
Occurrences(s, c) == Cardinality({i \in DOMAIN s : s[i] = c})

RECURSIVE TokensFrom(_, _)
\* the tokens of s after the token cur that is being read: a delimiter is a
\* token, a run of other characters between delimiters and spaces is a token
TokensFrom(s, cur) ==
    LET flush == IF cur = << >> THEN << >> ELSE <<cur>>
    IN  IF s = << >> THEN flush
        ELSE IF Head(s) = " " THEN flush \o TokensFrom(Tail(s), << >>)
        ELSE IF Head(s) \in Delimiters
        THEN flush \o <<<<Head(s)>>>> \o TokensFrom(Tail(s), << >>)
        ELSE TokensFrom(Tail(s), cur \o <<Head(s)>>)

RECURSIVE JoinSpaces(_)
JoinSpaces(tokens) ==
    IF tokens = << >> THEN << >>
    ELSE IF Len(tokens) = 1 THEN tokens[1]
    ELSE tokens[1] \o <<" ">> \o JoinSpaces(Tail(tokens))

\* the tokens of s separated by single spaces
TokenForm(s) == JoinSpaces(TokensFrom(s, << >>))

\* the token form with the space that a delimiter or a space at the start of
\* s, and one at the end of s, leave
PaddedTokenForm(s) ==
    LET tf == TokenForm(s)
        edge(c) == IF c \in Delimiters \cup {" "} THEN <<" ">> ELSE << >>
    IN  IF s = << >> THEN << >>
        ELSE IF tf = << >> THEN <<" ">>
        ELSE edge(s[1]) \o tf \o edge(s[Len(s)])

\* C29: the tokenizer is idempotent: tokenizing the output of a call gives
\* that output again.
C29_TokenizeIdempotent ==
    (fx.fn = "tokenize_type" /\ fx.done) => tokenize_type(fx.output) = fx.output

\* a type string with a delimiter and a run of spaces that the call changed
C29_Witness ==
    /\ fx.fn = "tokenize_type" /\ fx.done
    /\ \E i \in DOMAIN fx.input : fx.input[i] \in Delimiters
    /\ \E i \in 1..(Len(fx.input) - 2) :
         fx.input[i] = " " /\ fx.input[i + 1] = " " /\ fx.input[i + 2] = " "
    /\ fx.output # fx.input

\* C30 as stated: the output is the tokens of the input separated by single
\* spaces (& Vec < u8 > for &Vec<u8>), and each delimiter occurs as often in
\* the output as in the input.
C30_OutputIsTokenForm ==
    (fx.fn = "tokenize_type" /\ fx.done) =>
      /\ fx.output = TokenForm(fx.input)
      /\ \A c \in Delimiters : Occurrences(fx.output, c) = Occurrences(fx.input, c)

\* C30 amended: the output is the token form with one space in front when the
\* input starts with a delimiter or a space and one behind when it ends with
\* one (" & Vec < u8 > " for &Vec<u8>); it holds no two spaces in a row, and
\* each delimiter occurs as often in the output as in the input.
C30_OutputIsPaddedTokenForm ==
    (fx.fn = "tokenize_type" /\ fx.done) =>
      /\ fx.output = PaddedTokenForm(fx.input)
      /\ fx.input = ExampleType =>
           fx.output = <<" ", "&", " ", "V", "e", "c", " ", "<", " ", "u", "8", " ", ">", " ">>
      /\ \A i \in 1..(Len(fx.output) - 1) : ~(fx.output[i] = " " /\ fx.output[i + 1] = " ")
      /\ \A c \in Delimiters : Occurrences(fx.output, c) = Occurrences(fx.input, c)

\* the example of the claim has been tokenized
C30_Witness ==
    /\ fx.fn = "tokenize_type" /\ fx.done
    /\ fx.input = ExampleType
    /\ Len(fx.output) = 14

(***************************************************************************)
(* crate_to_tar_path.  A path is the sequence of its components, as        *)
(* PathBuf compares paths.                                                 *)
(***************************************************************************)
NameChars == {"a", "1", "-"}

\* the crate names, the empty one included
PathNames == SeqsUpTo(NameChars, MaxNameLen)

PathVersions == {<<"1">>, <<"1", "-", "1">>}

\* the mirror directory /m
Mirrors == {<< <<"m">> >>}

RECURSIVE ComponentsFrom(_, _)
\* the components of the string s after the component cur that is being read
ComponentsFrom(s, cur) ==
    LET flush == IF cur = << >> THEN << >> ELSE <<cur>>
    IN  IF s = << >> THEN flush
        ELSE IF Head(s) = "/" THEN flush \o ComponentsFrom(Tail(s), << >>)
        ELSE ComponentsFrom(Tail(s), cur \o <<Head(s)>>)

\* Path::join: a relative s is appended (none of the strings joined here
\* starts with /, which would replace the path)
PathJoin(path, s) ==
    IF s # << >> /\ Head(s) = "/" THEN <<<<"/">>>> \o ComponentsFrom(s, << >>)
    ELSE path \o ComponentsFrom(s, << >>)

\* the names of exactly four characters fall to the last branch
crate_path_over_four(name) ==
    IF Len(name) > 4
    THEN [ok |-> TRUE,
          s |-> SubSeq(name, 1, 2) \o <<"/">> \o SubSeq(name, 3, 4) \o <<"/">> \o name]
    ELSE IF Len(name) = 3 THEN [ok |-> TRUE, s |-> <<"3", "/">> \o name]
    ELSE IF Len(name) = 2 THEN [ok |-> TRUE, s |-> <<"2", "/">> \o name]
    ELSE IF Len(name) = 1 THEN [ok |-> TRUE, s |-> <<"1", "/">> \o name]
    ELSE [ok |-> FALSE, s |-> << >>]

\* the directory of the crate below crates/; ok is FALSE at unreachable!()
crate_path(name) ==
    IF Len(name) >= 4
    THEN [ok |-> TRUE,
          s |-> SubSeq(name, 1, 2) \o <<"/">> \o SubSeq(name, 3, 4) \o <<"/">> \o name]
    ELSE IF Len(name) = 3 THEN [ok |-> TRUE, s |-> <<"3", "/">> \o name]
    ELSE IF Len(name) = 2 THEN [ok |-> TRUE, s |-> <<"2", "/">> \o name]
    ELSE IF Len(name) = 1 THEN [ok |-> TRUE, s |-> <<"1", "/">> \o name]
    ELSE [ok |-> FALSE, s |-> << >>]

DotCrate == <<".", "c", "r", "a", "t", "e">>

\* "{version}/{name}-{version}.crate"
version_path(name, version) == version \o <<"/">> \o name \o <<"-">> \o version \o DotCrate

\* [ok, path]: ok is FALSE when the call panics
crate_to_tar_path(panamax_mirror_path, name, version) ==
    LET cp == crate_path(name)
    IN  IF ~cp.ok THEN [ok |-> FALSE, path |-> << >>]
        ELSE [ok |-> TRUE,
              path |-> PathJoin(PathJoin(PathJoin(panamax_mirror_path,
                                                  <<"c", "r", "a", "t", "e", "s">>),
                                         cp.s),
                                version_path(name, version))]

CrateToTarPath ==
    /\ fx.fn = "crate_to_tar_path"
    /\ ~fx.done
    /\ fx' = [fx EXCEPT !.output = crate_to_tar_path(fx.input[1], fx.input[2], fx.input[3]),
                        !.done = TRUE]
    /\ UNCHANGED <<db, idx, panicked, hist, sr, pc, job, orch, load>>

\* the prefix directories of the claim
PrefixPath(n) ==
    IF Len(n) >= 4 THEN <<SubSeq(n, 1, 2), SubSeq(n, 3, 4), n>>
    ELSE IF Len(n) = 3 THEN <<<<"3">>, n>>
    ELSE IF Len(n) = 2 THEN <<<<"2">>, n>>
    ELSE <<<<"1">>, n>>

\* C26: for every non-empty name crate_to_tar_path(mirror, n, v) is
\* {mirror}/crates/{prefix}/{v}/{n}-{v}.crate, with the prefix n[0..2]/n[2..4]/n
\* for names of four or more characters and (length)/n for shorter names, and
\* no other (name, version) is mapped to the same path.
C26_TarPathLayout ==
    (fx.fn = "crate_to_tar_path" /\ fx.done /\ fx.input[2] # << >>) =>
      LET m == fx.input[1]
          n == fx.input[2]
          v == fx.input[3]
      IN  /\ fx.output.ok
          /\ fx.output.path =
               m \o <<<<"c", "r", "a", "t", "e", "s">>>> \o PrefixPath(n)
                 \o <<v, n \o <<"-">> \o v \o DotCrate>>
          /\ \A n2 \in PathNames \ {<< >>}, v2 \in PathVersions :
               crate_to_tar_path(m, n2, v2).path = fx.output.path => (n2 = n /\ v2 = v)

\* a name of exactly four characters whose file name is also that of another
\* crate at another version
C26_Witness ==
    /\ fx.fn = "crate_to_tar_path" /\ fx.done /\ fx.output.ok
    /\ Len(fx.input[2]) = 4
    /\ \E n2 \in PathNames \ {<< >>}, v2 \in PathVersions :
         /\ <<n2, v2>> # <<fx.input[2], fx.input[3]>>
         /\ n2 \o <<"-">> \o v2 = fx.input[2] \o <<"-">> \o fx.input[3]

(***************************************************************************)
(* analyze_crate_path on a source tree.  What rust-analyzer reports about  *)
(* the tree is the input: whether the path is a directory, whether the     *)
(* workspace loads, the number of member packages, the number of library   *)
(* targets of the package, and whether the crate graph holds the package.  *)
(***************************************************************************)
SourceTree(is_dir, loads, members, lib_targets, in_graph, fndetails) ==
    [is_dir |-> is_dir, loads |-> loads, members |-> members,
     lib_targets |-> lib_targets, in_graph |-> in_graph,
     name |-> "a", version |-> "1.0", fndetails |-> fndetails]

SourceTrees ==
    {SourceTree(d, l, m, t, g, ds) :
       d \in BOOLEAN, l \in BOOLEAN, m \in 0..2, t \in 0..2, g \in BOOLEAN,
       ds \in ConcDetailLists("a")}

\* the call aborts the process
Panic == [panics |-> TRUE, name |-> "", version |-> "", res |-> Err]

\* [panics, name, import_name, version]: the two assert_eq! abort the call
discover_crate_import_name(tree) ==
    IF ~tree.loads THEN [panics |-> TRUE, name |-> "", version |-> ""]
    ELSE IF tree.members # 1 THEN [panics |-> TRUE, name |-> "", version |-> ""]
    ELSE IF tree.lib_targets # 1 THEN [panics |-> TRUE, name |-> "", version |-> ""]
    ELSE [panics |-> FALSE, name |-> tree.name, version |-> tree.version]

\* [panics, name, version, res]
analyze_crate_path(tree) ==
    IF ~tree.is_dir THEN Panic
    ELSE IF ~tree.loads THEN Panic
    ELSE LET discovered == discover_crate_import_name(tree)
         IN  IF discovered.panics THEN Panic
             ELSE IF tree.in_graph
             THEN [panics |-> FALSE, name |-> discovered.name,
                   version |-> discovered.version, res |-> Left(tree.fndetails)]
             ELSE Panic

AnalyzeCratePath ==
    /\ fx.fn = "analyze_crate_path"
    /\ ~fx.done
    /\ fx' = [fx EXCEPT !.output = analyze_crate_path(fx.input), !.done = TRUE]
    /\ UNCHANGED <<db, idx, panicked, hist, sr, pc, job, orch, load>>

\* the tree is a directory that is a workspace of several members, or has
\* other than one library target, or does not load, or is not in the graph
ExtractionFails(tree) ==
    /\ tree.is_dir
    /\ \/ tree.members > 1
       \/ tree.lib_targets # 1
       \/ ~tree.loads
       \/ ~tree.in_graph

\* C21: when the source tree is a workspace with more than one member, has
\* other than exactly one library target, fails to load, or its package is not
\* in the crate graph, analyze_crate_path returns an error message (with the
\* name and version of the package when the tree has one) and does not abort.
C21_ExtractionFailureIsReturned ==
    (fx.fn = "analyze_crate_path" /\ fx.done /\ ExtractionFails(fx.input)) =>
      /\ ~fx.output.panics
      /\ fx.output.res.kind = "Right"
      /\ (fx.input.loads /\ fx.input.members = 1) =>
            (fx.output.name = fx.input.name /\ fx.output.version = fx.input.version)

(***************************************************************************)
(* load_text_search, request by request.  The loader runs to the next      *)
(* await in one step; the service accepts an update when it is requested   *)
(* and applies it in a step of its own.  A type string is the sequence of  *)
(* its characters; a tree yields its keys in the order of their bytes.     *)
(***************************************************************************)
\* batch.len() >= 500
BATCH_SIZE == 500

PARAM_TYPES_INDEX == "param_types"
RET_TYPES_INDEX == "ret_types"

\* the characters of the keys, in the order of their bytes
KeyChars == <<" ", "&", "<", ">", "[", "]", "a">>

\* the k-th type string of four characters in the order of the bytes: the
\* digits of k to the base Len(KeyChars)
KeyOf(k) ==
    [p \in 1..4 |-> KeyChars[((k \div (Len(KeyChars) ^ (4 - p))) % Len(KeyChars)) + 1]]

RECURSIVE KeyRank(_)
\* the k with KeyOf(k) = key
KeyRank(key) ==
    IF key = << >> THEN 0
    ELSE ((CHOOSE d \in DOMAIN KeyChars : KeyChars[d] = Head(key)) - 1)
             * (Len(KeyChars) ^ (Len(key) - 1))
           + KeyRank(Tail(key))

\* the type strings a store of the model can hold, in the order of the bytes
AllKeys == [k \in 1..(MaxKeys + 1) |-> KeyOf(k)]

\* the f-th function of the crate: g(KeyOf(f+1)) -> KeyOf((f mod r) + 1)
KeyFn(f, r) ==
    FnDetail("a", [path |-> "g", params |-> <<KeyOf(f + 1)>>, ret |-> KeyOf((f % r) + 1)])

\* the store after save_analysis("a", "1.0", details) on an empty store, the
\* details being KeyFn(0, r), .., KeyFn(n-1, r): every function has a param
\* type of its own, and r ret types are shared in turn
KeyStore(n, r) ==
    [meta |-> (FN_ID_COUNTER :> n),
     param |-> [key \in {KeyOf(k) : k \in 1..n} |-> {KeyRank(key) - 1}],
     ret |-> [key \in {KeyOf(k) : k \in 1..Min(n, r)} |->
                {(KeyRank(key) - 1) + r * m : m \in 0..((n - KeyRank(key)) \div r)}],
     fn |-> [f \in 0..(n - 1) |-> KeyFn(f, r)],
     crate |-> ("a" :> [version |-> "1.0", fn_ids |-> [i \in 1..n |-> i - 1]]),
     error |-> << >>]

\* the history of that call
KeyHist(n, r) ==
    [assigned |-> [f \in 0..(n - 1) |-> 1],
     owner |-> [f \in 0..(n - 1) |-> "a"],
     stored |-> 0..(n - 1),
     maxctr |-> n,
     calls |-> 0,
     last |-> [m \in CrateNames |->
                 IF m = "a"
                 THEN [op |-> "saved", version |-> "1.0", start |-> 0,
                       fndetails |-> [i \in 1..n |-> KeyFn(i - 1, r)]]
                 ELSE NoCall]]

\* the sizes of the stores: n functions and r ret types, so that the key
\* streams have no key, one key, one key less than a batch, one batch, one
\* key more, two batches, and MaxKeys keys
LoadShapes ==
    { <<0, 1>>, <<1, 1>>, <<BATCH_SIZE - 1, 1>>, <<BATCH_SIZE, BATCH_SIZE>>,
      <<BATCH_SIZE + 1, 2>>, <<2 * BATCH_SIZE, BATCH_SIZE + 1>>, <<MaxKeys, MaxKeys>> }

\* tree.iter(): the keys of the tree in the order of their bytes
TreeIter(tree) == SelectSeq(AllKeys, LAMBDA key : key \in DOMAIN tree)

\* TypeInFn { id: i as u64, ty: tokenized_key, orig_ty: str_key.to_owned() }
TypeInFn(i, str_key) == [id |-> i, ty |-> tokenize_type(str_key), orig_ty |-> str_key]

\* the enumeration starts again in every batch
FillBatchIdInBatch(stream, i) ==
    LET end == Min(i + BATCH_SIZE, Len(stream))
    IN  [batch |-> [k \in 1..(end - i) |-> TypeInFn(k - 1, stream[i + k])],
         i |-> end,
         final |-> end - i < BATCH_SIZE]

\* the for loop from the i-th key of the stream up to the next do_batch: the
\* batch is full (batch.len() >= 500) or the stream has ended (the do_batch
\* after the loop)
FillBatch(stream, i) ==
    LET end == Min(i + BATCH_SIZE, Len(stream))
    IN  [batch |-> [k \in 1..(end - i) |-> TypeInFn(i + k - 1, stream[i + k])],
         i |-> end,
         final |-> end - i < BATCH_SIZE]

\* the index after the service has applied the update u: a document replaces
\* the document that has its id
Applied(index, u) ==
    IF u.kind = "settings"
    THEN [index EXCEPT !.settings = TRUE]
    ELSE [index EXCEPT !.docs =
            {doc \in index.docs : doc.id \notin {u.docs[k].id : k \in DOMAIN u.docs}}
               \cup Range(u.docs)]

\* what a search sees of the indexes of the service
IndexView(svc) ==
    [ix \in DOMAIN svc |->
        [exists |-> svc[ix].exists, docs |-> {doc.orig_ty : doc \in svc[ix].docs}]]

\* client.delete_index_if_exists(ix)
DeleteIndexIfExists ==
    /\ ~panicked
    /\ load.pc = "delete"
    /\ load' = [load EXCEPT
                  !.pc = "create",
                  !.svc[load.ix] = NoLoad.svc[load.ix],
                  !.trace = Append(load.trace, <<"delete", load.ix>>)]
    /\ idx' = IndexView(load'.svc)
    /\ UNCHANGED <<db, panicked, hist, sr, pc, job, orch, fx>>

\* client.get_or_create(ix)
GetOrCreate ==
    /\ ~panicked
    /\ load.pc = "create"
    /\ load' = [load EXCEPT
                  !.pc = "set_settings",
                  !.svc[load.ix].exists = TRUE,
                  !.trace = Append(load.trace, <<"create", load.ix>>)]
    /\ idx' = IndexView(load'.svc)
    /\ UNCHANGED <<db, panicked, hist, sr, pc, job, orch, fx>>

\* ix.set_settings(&settings): the service accepts the update
SetSettings ==
    /\ ~panicked
    /\ load.pc = "set_settings"
    /\ load' = [load EXCEPT
                  !.pc = "wait_settings",
                  !.queue = Append(load.queue,
                                   [ix |-> load.ix, kind |-> "settings", docs |-> << >>]),
                  !.trace = Append(load.trace, <<"settings", load.ix>>)]
    /\ UNCHANGED <<db, idx, panicked, hist, sr, pc, job, orch, fx>>

\* do_batch: index.add_documents(batch, Some("id")), the loop having filled
\* the batch; the service accepts the update
AddDocuments ==
    /\ ~panicked
    /\ load.pc = "add_documents"
    /\ \E tree \in {IF load.ix = PARAM_TYPES_INDEX THEN db.param ELSE db.ret} :
       \E filled \in {FillBatch(TreeIter(tree), load.i)} :
         load' = [load EXCEPT
                    !.pc = "wait_documents",
                    !.i = filled.i,
                    !.batch = filled.batch,
                    !.final = filled.final,
                    !.queue = Append(load.queue,
                                     [ix |-> load.ix, kind |-> "documents",
                                      docs |-> filled.batch]),
                    !.trace = Append(load.trace, <<"add", load.ix>>),
                    !.sent = Append(load.sent,
                                    [ix |-> load.ix, docs |-> filled.batch,
                                     pending |-> Len(load.queue)])]
    /\ UNCHANGED <<db, idx, panicked, hist, sr, pc, job, orch, fx>>

\* the service applies the update at the head of its queue
ServiceApplies ==
    /\ load.queue # << >>
    /\ \E u \in {Head(load.queue)} :
         load' = [load EXCEPT
                    !.queue = Tail(load.queue),
                    !.svc[u.ix] = Applied(load.svc[u.ix], u)]
    /\ idx' = IndexView(load'.svc)
    /\ UNCHANGED <<db, panicked, hist, sr, pc, job, orch, fx>>

\* wait_for_pending_update(None, None) returns after set_settings: the
\* loader goes on to the other index, or to the documents of param_types
SettingsApplied ==
    /\ ~panicked
    /\ load.pc = "wait_settings"
    /\ load.queue = << >>
    /\ load' = [load EXCEPT
                  !.pc = IF load.ix = PARAM_TYPES_INDEX THEN "delete" ELSE "add_documents",
                  !.ix = IF load.ix = PARAM_TYPES_INDEX
                         THEN RET_TYPES_INDEX ELSE PARAM_TYPES_INDEX,
                  !.i = 0,
                  !.total = 0,
                  !.batch = << >>,
                  !.trace = Append(load.trace, <<"settings_applied", load.ix>>)]
    /\ UNCHANGED <<db, idx, panicked, hist, sr, pc, job, orch, fx>>

\* do_batch after wait_for_pending_update(None, None) has returned:
\* *total += batch.len(); batch.clear().  After the do_batch that follows
\* the loop the loader goes on to ret_types, or returns
BatchApplied ==
    /\ ~panicked
    /\ load.pc = "wait_documents"
    /\ load.queue = << >>
    /\ load' = [load EXCEPT
                  !.pc = IF ~load.final THEN "add_documents"
                         ELSE IF load.ix = PARAM_TYPES_INDEX THEN "add_documents"
                         ELSE "returned",
                  !.ix = IF load.final THEN RET_TYPES_INDEX ELSE load.ix,
                  !.i = IF load.final THEN 0 ELSE load.i,
                  !.total = IF load.final /\ load.ix = PARAM_TYPES_INDEX THEN 0
                            ELSE load.total + Len(load.batch),
                  !.batch = << >>,
                  !.final = FALSE,
                  !.trace = Append(load.trace, <<"batch_applied", load.ix>>)]
    /\ UNCHANGED <<db, idx, panicked, hist, sr, pc, job, orch, fx>>

\* wait_for_pending_update(None, None) gives up before the service has
\* applied the update: it returns None and the unwrap panics
WaitTimesOut ==
    /\ load.pc \in {"wait_settings", "wait_documents"}
    /\ ~panicked
    /\ load.queue # << >>
    /\ panicked' = TRUE
    /\ UNCHANGED <<db, idx, hist, sr, pc, job, orch, fx, load>>

\* the indexes a load can find: none, or those of a load that ran when the
\* store held its first function only
FoundIndexes(d) ==
    {NoLoad.svc}
      \cup {[ix \in {PARAM_TYPES_INDEX, RET_TYPES_INDEX} |->
               [exists |-> TRUE, settings |-> TRUE, docs |-> {TypeInFn(0, KeyOf(1))}]] :
            x \in {y \in {1} : DOMAIN d.fn # {}}}

\* load_text_search is called on a store that save_analysis has filled
InitLoad ==
    /\ \E shape \in LoadShapes :
         /\ db = KeyStore(shape[1], shape[2])
         /\ hist = KeyHist(shape[1], shape[2])
    /\ \E svc \in FoundIndexes(db) :
         /\ load = [NoLoad EXCEPT !.pc = "delete", !.ix = PARAM_TYPES_INDEX, !.svc = svc]
         /\ idx = IndexView(svc)
    /\ panicked = FALSE
    /\ sr = NoSearch
    /\ pc = [w \in Workers |-> "idle"]
    /\ job = [w \in Workers |-> NoJob]
    /\ orch = NoRun
    /\ fx = NoEval

NextLoad ==
    \/ DeleteIndexIfExists
    \/ GetOrCreate
    \/ SetSettings
    \/ SettingsApplied
    \/ AddDocuments
    \/ BatchApplied
    \/ ServiceApplies
    \/ WaitTimesOut

SpecLoad == InitLoad /\ [][NextLoad]_vars

(***************************************************************************)
(* Claims about load_text_search.                                          *)
(***************************************************************************)
RECURSIVE DocsSent(_, _, _)
\* the documents of the add_documents requests for index ix, in the order of
\* the requests
DocsSent(sent, b, ix) ==
    IF b > Len(sent) THEN << >>
    ELSE (IF sent[b].ix = ix THEN sent[b].docs ELSE << >>) \o DocsSent(sent, b + 1, ix)

\* the loader has made the do_batch after the loop over the keys of ix
StreamDone(ix) ==
    \/ load.pc = "returned"
    \/ ix = PARAM_TYPES_INDEX /\ \E b \in DOMAIN load.sent : load.sent[b].ix = RET_TYPES_INDEX
    \/ load.ix = ix /\ load.pc = "wait_documents" /\ load.final

\* C31: load_text_search, for each of the indexes param_types and ret_types,
\* deletes the index, then creates it and applies the settings, and only then
\* submits documents; every key of the keyspace is submitted exactly once,
\* with a document id equal to its position in the key stream (the ids are
\* distinct within an index); no batch holds more than 500 documents; and no
\* batch is submitted before the previous batch was acknowledged as applied.
C31_LoadInOrderAndInBatches ==
    /\ \A p \in DOMAIN load.trace :
         load.trace[p][1] = "add" =>
            \E ix \in {load.trace[p][2]} :
              /\ \E d \in 1..p :
                   /\ load.trace[d] = <<"delete", ix>>
                   /\ \E c \in d..p :
                        /\ load.trace[c] = <<"create", ix>>
                        /\ \E s \in c..p :
                             /\ load.trace[s] = <<"settings", ix>>
                             /\ \E a \in s..p : load.trace[a] = <<"settings_applied", ix>>
              /\ \A q \in p..Len(load.trace) :
                   load.trace[q] \notin {<<"delete", ix>>, <<"create", ix>>, <<"settings", ix>>}
              /\ \A q \in 1..(p - 1) :
                   load.trace[q][1] = "add" =>
                      \E a \in q..p : load.trace[a] = <<"batch_applied", load.trace[q][2]>>
    /\ \A b \in DOMAIN load.sent :
         /\ Len(load.sent[b].docs) <= BATCH_SIZE
         /\ load.sent[b].pending = 0
    /\ \A ix \in {PARAM_TYPES_INDEX, RET_TYPES_INDEX} :
         \E stream \in {TreeIter(IF ix = PARAM_TYPES_INDEX THEN db.param ELSE db.ret)} :
         \E docs \in {DocsSent(load.sent, 1, ix)} :
           /\ Len(docs) <= Len(stream)
           /\ \A k \in DOMAIN docs : docs[k].id = k - 1 /\ docs[k].orig_ty = stream[k]
           /\ Cardinality({docs[k].id : k \in DOMAIN docs}) = Len(docs)
           /\ StreamDone(ix) => Len(docs) = Len(stream)

\* load_text_search has returned on a store with more than two batches of
\* keys: full batches and a batch of one document were submitted, and each
\* index holds one document per key
C31_Witness ==
    /\ load.pc = "returned"
    /\ Cardinality(DOMAIN db.param) > 2 * BATCH_SIZE
    /\ \E b \in DOMAIN load.sent : Len(load.sent[b].docs) = BATCH_SIZE
    /\ \E b \in DOMAIN load.sent : Len(load.sent[b].docs) = 1
    /\ Cardinality(load.svc[PARAM_TYPES_INDEX].docs) = Cardinality(DOMAIN db.param)
    /\ Cardinality(load.svc[RET_TYPES_INDEX].docs) = Cardinality(DOMAIN db.ret)
    /\ idx = TextIndexes(db)

InitCli ==
    /\ db = open_db(EmptyDb)
    /\ idx = NoIndexes
    /\ panicked = FALSE
    /\ hist = [assigned |-> << >>, owner |-> << >>, stored |-> {}, maxctr |-> 0, calls |-> 0,
               last |-> [n \in CrateNames |-> NoCall]]
    /\ sr = NoSearch
    /\ pc = [w \in Workers |-> "idle"]
    /\ job = [w \in Workers |-> NoJob]
    /\ orch = NoRun
    /\ load = NoLoad
    /\ fx \in {ToRun("tokenize_type", s) : s \in TypeStrs}
               \cup {ToRun("crate_to_tar_path", <<m, n, v>>) :
                        m \in Mirrors, n \in PathNames, v \in PathVersions}
               \cup {ToRun("analyze_crate_path", tree) : tree \in SourceTrees}

NextCli ==
    \/ TokenizeType
    \/ CrateToTarPath
    \/ AnalyzeCratePath

SpecCli == InitCli /\ [][NextCli]_vars
====
